---------------------------- MODULE Spec2Model ----------------------------
(***************************************************************************)
(* The RPC engine of rDSN (src/core/core/rpc_engine.cpp): on the client    *)
(* side rpc_client_matcher (on_call, on_recv_reply, on_rpc_timeout) and    *)
(* the outbound path of rpc_engine (call, call_uri with its retry shim,    *)
(* call_group, call_ip); on the server side rpc_server_dispatcher and      *)
(* rpc_engine's on_recv_request, reply and forward.                        *)
(*                                                                         *)
(* Every critical section of the matcher (one bucket spin lock) is one     *)
(* atomic step.  on_rpc_timeout is four steps: its first critical section, *)
(* the unlocked clock/state check, its second critical section and the     *)
(* unlocked resend.  on_recv_reply erases the entry in its only critical   *)
(* section; what it does afterwards touches only the call it has just      *)
(* taken out of the table, so the whole handler is one step.               *)
(***************************************************************************)
EXTENDS Integers, Sequences, FiniteSets, TLC

\* ------------------------------------------------------------------ bounds
MaxCalls == 1
MaxForwards == 1
MaxTimeoutMs == 2
MaxId == MaxCalls + MaxForwards
MaxTimers == 2 * MaxCalls + 1

\* The per-code resend threshold rpc_request_resend_timeout_milliseconds is
\* either 0 (resend disabled) or ResendMs.
ResendMs == 1

\* The timeout of a URI call, and how far past it the clock is followed.
UriTimeoutMs == 10
MaxUriTime == UriTimeoutMs + 1

\* The registry of the server dispatcher: rpc codes and handler names.
MaxCodes == 2

Calls == 1..MaxCalls
Ids == 1..MaxId
Timers == 1..MaxTimers

\* --------------------------------------------------------------- constants
\* IPv4 server addresses (port > MAX_CLIENT_PORT); the group has both members.
AddrA == "A"
AddrB == "B"
Addrs == {AddrA, AddrB}
Members == <<AddrA, AddrB>>
\* rpc_engine::primary_address()
primary_address == "P"

\* rand::next_u64(min, max) draws from [min, max]; call() passes the limits of
\* the header's trace_id type, a uint64_t.  The ids drawn are sampled from
\* the low end of that range.
trace_id_min == 0
MaxTraceSample == 2
next_u64 == trace_id_min .. (trace_id_min + MaxTraceSample)

ERR_OK == "ERR_OK"
ERR_TIMEOUT == "ERR_TIMEOUT"
ERR_NETWORK_FAILURE == "ERR_NETWORK_FAILURE"
ERR_FORWARD_TO_OTHERS == "ERR_FORWARD_TO_OTHERS"
ERR_SERVICE_NOT_FOUND == "ERR_SERVICE_NOT_FOUND"
\* a generic non-OK error a server or a resolver may report
ERR_BUSY == "ERR_BUSY"

HOST_TYPE_IPV4 == "HOST_TYPE_IPV4"
HOST_TYPE_GROUP == "HOST_TYPE_GROUP"
HOST_TYPE_URI == "HOST_TYPE_URI"

GRPC_TO_LEADER == "GRPC_TO_LEADER"
GRPC_TO_ANY == "GRPC_TO_ANY"
GRPC_TO_ALL == "GRPC_TO_ALL"

TASK_STATE_READY == "TASK_STATE_READY"
TASK_STATE_CANCELLED == "TASK_STATE_CANCELLED"
TASK_STATE_FINISHED == "TASK_STATE_FINISHED"

ERR_HANDLER_NOT_FOUND == "ERR_HANDLER_NOT_FOUND"
ERR_APP_NOT_EXIST == "ERR_APP_NOT_EXIST"
ERR_OPERATION_DISABLED == "ERR_OPERATION_DISABLED"

\* the backoff of the URI retry shim: 8 << send_retry_count, capped
GapBaseMs == 8
GapCapMs == 1000
\* the width of int, the type of 8 << send_retry_count
IntBits == 32

\* rpc codes (0 is TASK_CODE_INVALID) and the names of the name index: the
\* code's own name code.to_string() and the extra names handlers come with
TASK_CODE_INVALID == 0
Codes == 1..MaxCodes
to_string(code) == <<"code", code>>
ExtraNames == {<<"extra", 1>>}
Names == {to_string(code) : code \in Codes} \cup ExtraNames

VARIABLES
    calls,      \* the response tasks with their request messages
    requests,   \* rpc_client_matcher::_requests, all buckets: id -> match_entry
    tasks,      \* the rpc_timeout_task objects and the on_rpc_timeout frames
    next_id,    \* message_ex::new_id
    leader,     \* the group address's leader hint
    auto,       \* the group's update_leader_automatically flag
    now,        \* dsn_now_ms
    fatal,      \* the dassert that stopped the process, or "none"
    ret,        \* what the last on_recv_reply or unregister_rpc_handler returned
    horizon,    \* the last instant of the clock a run looks at
    handlers,   \* rpc_server_dispatcher::_handlers: name -> handler_entry*
    vhandlers,  \* rpc_server_dispatcher::_vhandlers: code -> handler_entry
    is_serving, \* rpc_engine::_is_serving
    out,        \* what the last server-side operation did with its message
    worker      \* a task_worker, its thread, its owner and its input queue

\* the server side of the engine, the clock's range and the task worker
more_vars == <<horizon, handlers, vhandlers, is_serving, out, worker>>

vars == <<calls, requests, tasks, next_id, leader, auto, now, fatal, ret, more_vars>>


\* ------------------------------------------------------------------- types
\* the clock stops at the run's horizon
MaxTime == horizon
Times == 0..MaxTime

Min(a, b) == IF a <= b THEN a ELSE b

NoAddr == [type |-> "HOST_TYPE_INVALID", ip |-> ""]
ServerAddrs ==
    {[type |-> HOST_TYPE_IPV4, ip |-> AddrA],
     [type |-> HOST_TYPE_GROUP, ip |-> ""],
     [type |-> HOST_TYPE_URI, ip |-> ""]}

\* A response task (rpc_response_task) and the request message it carries.
\* regs, sends, done, drops and redirected are the history of the call: how
\* often on_call registered it, what the client transport was handed
\* (send_message), every call->enqueue(err, reply), every inject_drop_message
\* and the registrations a FORWARD_TO_OTHERS reply ended.  deadline_ms is the
\* deadline the retry shim of call_uri has captured, delay_until the instant
\* set_delay puts the task's run at, execd how many of its completions the
\* executor has run, delivered what the user's callback was invoked with, and
\* retry, retry_due the LPC_RPC_DELAY_CALL task that re-issues the call.
\* todo is what a call_ip that is followed statement by statement has still
\* to do for the call.  resps is, for every invocation of the user's callback,
\* whether it was given a response, and failures how often the shim has
\* called resolver->on_access_failure.
NoCall ==
    [st |-> "none", id |-> 0, server |-> NoAddr, to |-> "", timeout_ms |-> 0,
     resend_ms |-> 0, grpc_mode |-> GRPC_TO_LEADER, gpid |-> 0, shim |-> 0,
     regs |-> 0, sends |-> <<>>, done |-> <<>>, drops |-> 0, redirected |-> {},
     send_retry_count |-> 0, deadline_ms |-> 0, delay_until |-> 0, execd |-> 0,
     delivered |-> <<>>, retry |-> FALSE, retry_due |-> 0, todo |-> <<>>,
     resps |-> <<>>, failures |-> 0, from_address |-> "", trace_id |-> 0]

\* match_entry; resp_task = 0 is "no entry".  reg numbers the registration of
\* the call that made the entry.
NoEntry == [resp_task |-> 0, timeout_task |-> 0, timeout_ts_ms |-> 0, reg |-> 0]

\* An rpc_timeout_task and, while it runs, the frame of on_rpc_timeout(key).
NoTask ==
    [st |-> "free", key |-> 0, delay |-> 0, due |-> 0, pc |-> "", call |-> 0,
     timeout_ts_ms |-> 0, now_ts_ms |-> 0, resend |-> FALSE, new_timeout_task |-> 0]

\* A reply handed to on_recv_reply: nullptr or a message.
NullReply == [null |-> TRUE, err |-> "", is_forwarded |-> FALSE, from |-> "", body |-> ""]
Replies ==
    {NullReply} \cup
    {[null |-> FALSE, err |-> ERR_FORWARD_TO_OTHERS, is_forwarded |-> FALSE,
      from |-> AddrA, body |-> b] : b \in Addrs} \cup
    {[null |-> FALSE, err |-> e, is_forwarded |-> FALSE, from |-> AddrA, body |-> ""] :
        e \in {ERR_OK, ERR_BUSY}} \cup
    {[null |-> FALSE, err |-> e, is_forwarded |-> TRUE, from |-> a, body |-> ""] :
        e \in {ERR_OK, ERR_BUSY}, a \in Addrs}

\* What the partition resolver of a URI answers: no resolver, an error, or a
\* partition id and the address that serves it.
Resolutions ==
    {[resolver |-> FALSE, err |-> "", pid |-> 0, address |-> ""]} \cup
    {[resolver |-> TRUE, err |-> ERR_BUSY, pid |-> 0, address |-> ""]} \cup
    {[resolver |-> TRUE, err |-> ERR_OK, pid |-> 1, address |-> a] : a \in Addrs}

\* The state the engine's routines work on, as one value.
State ==
    [calls |-> calls, requests |-> requests, tasks |-> tasks, next_id |-> next_id,
     leader |-> leader, fatal |-> fatal]

Commit(S) ==
    /\ calls' = S.calls
    /\ requests' = S.requests
    /\ tasks' = S.tasks
    /\ next_id' = S.next_id
    /\ leader' = S.leader
    /\ fatal' = S.fatal

dassert(S, msg) == [S EXCEPT !.fatal = msg]

\* ------------------------------------------------------------ collaborators
\* call->enqueue(err, reply): the completion of the pending call.
enqueue(S, c, err, reply, reg, by) ==
    [S EXCEPT !.calls[c].done =
        Append(@, [err |-> err, reply |-> reply, reg |-> reg, by |-> by])]

\* net->send_message(request)
send_message(S, c) ==
    [S EXCEPT !.calls[c].sends = Append(@, [id |-> S.calls[c].id, to |-> S.calls[c].to])]

\* net->inject_drop_message(request, true)
inject_drop_message(S, c) == [S EXCEPT !.calls[c].drops = @ + 1]

\* new rpc_timeout_task(...): the lowest free slot
FreeTasks(S) == {t \in Timers : S.tasks[t].st = "free"}
NewTask(S) == CHOOSE t \in FreeTasks(S) : \A u \in FreeTasks(S) : t <= u

\* timeout_task->cancel(false): a task that has not started never runs; a
\* running one is not waited for.
cancel(S, t) ==
    CASE S.tasks[t].st = "armed" -> [S EXCEPT !.tasks[t] = NoTask]
      [] S.tasks[t].st = "created" -> [S EXCEPT !.tasks[t].st = "cancelled"]
      [] OTHER -> S

\* timeout_task->set_delay(delay_ms); timeout_task->enqueue()
arm(S, t, delay_ms) ==
    CASE S.tasks[t].st = "created" ->
            [S EXCEPT !.tasks[t].st = "armed",
                      !.tasks[t].delay = delay_ms,
                      !.tasks[t].due = Min(now + delay_ms, MaxTime)]
      [] S.tasks[t].st = "cancelled" -> [S EXCEPT !.tasks[t] = NoTask]
      [] OTHER -> S

\* group_address
possible_leader(S) == S.leader
set_leader(S, addr) == [S EXCEPT !.leader = addr]
leader_forward(S) ==
    [S EXCEPT !.leader = IF S.leader = Members[1] THEN Members[2] ELSE Members[1]]

\* --------------------------------------------------------- matcher: on_call
resend_enabled(req) == req.resend_ms > 0 /\ req.timeout_ms > req.resend_ms

on_call_timeout_ts_ms(req) == IF resend_enabled(req) THEN now + req.timeout_ms ELSE 0

\* (a first timer that always waits the whole timeout)
on_call_timeout_ms_whole(req) == req.timeout_ms

on_call_timeout_ms(req) == IF resend_enabled(req) THEN req.resend_ms ELSE req.timeout_ms

on_call(S, c) ==
    LET req == S.calls[c]
        t == NewTask(S)
        S1 == [S EXCEPT !.tasks[t] = [NoTask EXCEPT !.st = "created", !.key = req.id]]
    IN  IF S.requests[req.id].resp_task # 0
        THEN dassert(S, "the message is already on the fly")
        ELSE arm([S1 EXCEPT
                    !.requests[req.id] =
                        [resp_task |-> c, timeout_task |-> t,
                         timeout_ts_ms |-> on_call_timeout_ts_ms(req),
                         reg |-> req.regs + 1],
                    !.calls[c].regs = @ + 1],
                 t, on_call_timeout_ms(req))

\* ------------------------------------------------------------------ engine
\* rpc_engine::call_ip(addr, request, call, reset_request_id); with_call is
\* call != nullptr, accept is what the on_rpc_call join point returns.
call_ip(S, addr, c, with_call, reset_request_id, accept) ==
    LET S1 == [S EXCEPT !.calls[c].to = addr]
        S2 == IF reset_request_id
              THEN [S1 EXCEPT !.calls[c].id = S1.next_id, !.next_id = @ + 1]
              ELSE S1
    IN  IF ~accept
        THEN IF with_call
             THEN enqueue([inject_drop_message(S2, c) EXCEPT
                              !.calls[c].delay_until = now + S2.calls[c].timeout_ms],
                          c, ERR_TIMEOUT, FALSE, 0, "call_ip")
             ELSE inject_drop_message(S2, c)
        ELSE LET S3 == IF with_call THEN on_call(S2, c) ELSE S2
             IN  IF S3.fatal # "none" THEN S3 ELSE send_message(S3, c)

\* rpc_engine::call_group; member is what random_member() draws.
call_group(S, c, member, accept) ==
    CASE S.calls[c].grpc_mode = GRPC_TO_LEADER ->
            call_ip(S, possible_leader(S), c, TRUE, FALSE, accept)
      [] S.calls[c].grpc_mode = GRPC_TO_ANY ->
            call_ip(S, member, c, TRUE, FALSE, accept)
      [] OTHER -> dassert(S, "to be implemented")

\* rpc_engine::call_uri with a response task: the retry shim is put around the
\* task's callback, then the resolver's answer is acted on.
call_uri(S, c, res, accept) ==
    IF ~res.resolver
    THEN enqueue(S, c, ERR_SERVICE_NOT_FOUND, FALSE, 0, "call_uri")
    ELSE LET S1 == [S EXCEPT !.calls[c].shim = @ + 1,
                             !.calls[c].deadline_ms = now + S.calls[c].timeout_ms]
         IN  IF res.err = ERR_OK
             THEN IF S1.calls[c].gpid # res.pid /\ S1.calls[c].gpid # 0
                  THEN dassert(S1, "inconsistent gpid")
                  ELSE call_ip([S1 EXCEPT !.calls[c].gpid = res.pid],
                               res.address, c, TRUE, FALSE, accept)
             ELSE enqueue(S1, c, res.err, FALSE, 0, "call_uri")

\* rpc_engine::call_address: dispatch on the server address type
call_address(S, c, member, res, accept) ==
    CASE S.calls[c].server.type = HOST_TYPE_IPV4 ->
            call_ip(S, S.calls[c].server.ip, c, TRUE, FALSE, accept)
      [] S.calls[c].server.type = HOST_TYPE_GROUP -> call_group(S, c, member, accept)
      [] OTHER -> call_uri(S, c, res, accept)


\* --------------------------------------------------- matcher: on_recv_reply
\* (a leader hint that follows replies whatever the group's flag says)
is_leader_group_ignoring_auto(S, c) ==
    /\ S.calls[c].server.type = HOST_TYPE_GROUP
    /\ S.calls[c].grpc_mode = GRPC_TO_LEADER

is_leader_group(S, c) ==
    /\ S.calls[c].server.type = HOST_TYPE_GROUP
    /\ S.calls[c].grpc_mode = GRPC_TO_LEADER
    /\ auto

\* reply == nullptr: the rpc is terminated early
on_recv_reply_null(S, c, reg) ==
    enqueue(IF is_leader_group(S, c) THEN leader_forward(S) ELSE S,
            c, ERR_NETWORK_FAILURE, FALSE, reg, "reply")

\* err == ERR_FORWARD_TO_OTHERS: fake forwarding with a new request id.  (The
\* dbg_dassert that addr differs from to_address is not in a release build.)
on_recv_reply_forward(S, c, reg, reply, accept) ==
    LET addr == reply.body
        S1 == IF is_leader_group(S, c) THEN set_leader(S, addr) ELSE S
    IN  IF S.calls[c].server.type # HOST_TYPE_GROUP
        THEN dassert(S, "not implemented")
        ELSE call_ip([S1 EXCEPT !.calls[c].redirected = @ \cup {reg}],
                     addr, c, TRUE, TRUE, accept)

\* any other reply is delivered to the call
on_recv_reply_normal(S, c, reg, reply) ==
    IF reply.is_forwarded /\ S.calls[c].server.type # HOST_TYPE_GROUP
    THEN dassert(S, "not implemented")
    ELSE enqueue(IF reply.is_forwarded /\ reply.err = ERR_OK /\ is_leader_group(S, c)
                 THEN set_leader(S, reply.from)
                 ELSE S,
                 c, reply.err, TRUE, reg, "reply")

\* (a take that leaves the entry in the bucket)
on_recv_reply_take_leaves(S, key) == S

\* the critical section: the entry is moved out of the bucket
on_recv_reply_take(S, key) == [S EXCEPT !.requests[key] = NoEntry]

\* (a reply path that leaves the timer armed)
on_recv_reply_cancel_never(S, timeout_task, cur) == S

\* cur is task::get_current_task(): 0 or a running task.
on_recv_reply_cancel(S, timeout_task, cur) ==
    IF timeout_task # cur THEN cancel(S, timeout_task) ELSE S

on_recv_reply_found(S, key, reply, cur, accept) ==
    LET e == S.requests[key]
        c == e.resp_task
        S2 == on_recv_reply_cancel(on_recv_reply_take(S, key), e.timeout_task, cur)
    IN  CASE reply.null -> on_recv_reply_null(S2, c, e.reg)
          [] ~reply.null /\ reply.err = ERR_FORWARD_TO_OTHERS ->
                on_recv_reply_forward(S2, c, e.reg, reply, accept)
          [] OTHER -> on_recv_reply_normal(S2, c, e.reg, reply)

\* no entry: the reply is deleted
on_recv_reply_absent(S) == S

\* whether the bucket holds an entry for key
on_recv_reply_find(S, key) == S.requests[key].resp_task # 0

\* the values on_recv_reply returns
on_recv_reply_absent_ret_true == "true"
on_recv_reply_absent_ret == "false"
on_recv_reply_found_ret == "true"

\* What a new registration needs of the model's bounds: a free task slot and
\* a deadline within the clock's range.
CanRegister(c) ==
    /\ \E t \in Timers : tasks[t].st = "free"
    /\ now + calls[c].timeout_ms <= MaxTime

IsForward(reply) == ~reply.null /\ reply.err = ERR_FORWARD_TO_OTHERS

on_recv_reply(key, reply, cur, accept) ==
    /\ fatal = "none"
    /\ cur = 0 \/ (cur \in Timers /\ tasks[cur].st = "running")
    /\ LET c == requests[key].resp_task
       IN  (c # 0 /\ IsForward(reply) /\ calls[c].server.type = HOST_TYPE_GROUP)
               => (next_id <= MaxId /\ (accept => CanRegister(c)))
    /\ LET S == IF on_recv_reply_find(State, key)
                THEN on_recv_reply_found(State, key, reply, cur, accept)
                ELSE on_recv_reply_absent(State)
       IN  /\ Commit(S)
           /\ ret' = CASE S.fatal # "none" -> ret
                       [] S.fatal = "none" /\ on_recv_reply_find(State, key) ->
                             on_recv_reply_found_ret
                       [] OTHER -> on_recv_reply_absent_ret
    /\ UNCHANGED <<auto, now, more_vars>>

\* -------------------------------------------------- matcher: on_rpc_timeout
\* The executor starts an rpc_timeout_task whose delay has passed.
timer_fire(t) ==
    /\ fatal = "none"
    /\ tasks[t].st = "armed"
    /\ now >= tasks[t].due
    /\ tasks' = [tasks EXCEPT ![t].st = "running", ![t].pc = "sec1"]
    /\ UNCHANGED <<calls, requests, next_id, leader, auto, now, fatal, ret, more_vars>>

\* (a timeout that completes the call and leaves its entry)
on_rpc_timeout_found_no_resend_keeps(S, t, key) ==
    LET e == S.requests[key]
    IN  enqueue([S EXCEPT !.tasks[t] = NoTask],
                e.resp_task, ERR_TIMEOUT, FALSE, e.reg, "timeout")

\* first critical section, and the timeout of an entry with no deadline
on_rpc_timeout_found_no_resend(S, t, key) ==
    LET e == S.requests[key]
    IN  enqueue([S EXCEPT !.requests[key] = NoEntry, !.tasks[t] = NoTask],
                e.resp_task, ERR_TIMEOUT, FALSE, e.reg, "timeout")

on_rpc_timeout_sec1(t) ==
    /\ fatal = "none"
    /\ tasks[t].st = "running"
    /\ tasks[t].pc = "sec1"
    /\ LET key == tasks[t].key
           e == requests[key]
       IN  Commit(CASE e.resp_task = 0 -> [State EXCEPT !.tasks[t] = NoTask]
                    [] e.resp_task # 0 /\ e.timeout_ts_ms = 0 ->
                          on_rpc_timeout_found_no_resend(State, t, key)
                    [] OTHER ->
                          [State EXCEPT !.tasks[t].pc = "check",
                                        !.tasks[t].call = e.resp_task,
                                        !.tasks[t].timeout_ts_ms = e.timeout_ts_ms,
                                        !.tasks[t].resend = TRUE])
    /\ UNCHANGED <<auto, now, ret, more_vars>>

\* outside the lock: read the clock and the call's state, make the new task
on_rpc_timeout_resend(S, t) ==
    /\ now < S.tasks[t].timeout_ts_ms
    /\ S.calls[S.tasks[t].call].st = TASK_STATE_READY

on_rpc_timeout_check(t) ==
    /\ fatal = "none"
    /\ tasks[t].st = "running"
    /\ tasks[t].pc = "check"
    /\ on_rpc_timeout_resend(State, t) => \E u \in Timers : tasks[u].st = "free"
    /\ LET resend == on_rpc_timeout_resend(State, t)
           n == NewTask(State)
           S1 == [State EXCEPT !.tasks[t].pc = "sec2",
                               !.tasks[t].now_ts_ms = now,
                               !.tasks[t].resend = resend]
       IN  Commit(IF resend
                  THEN [S1 EXCEPT !.tasks[t].new_timeout_task = n,
                                  !.tasks[n] = [NoTask EXCEPT !.st = "created",
                                                              !.key = S1.tasks[t].key]]
                  ELSE S1)
    /\ UNCHANGED <<auto, now, ret, more_vars>>

\* second critical section
on_rpc_timeout_sec2_found(S, t, key) ==
    IF ~S.tasks[t].resend
    THEN [S EXCEPT !.requests[key] = NoEntry, !.tasks[t] = NoTask]
    ELSE [S EXCEPT !.requests[key].timeout_task = S.tasks[t].new_timeout_task,
                   !.tasks[t].pc = "resend"]

on_rpc_timeout_sec2_absent(S, t) ==
    LET n == S.tasks[t].new_timeout_task
        S1 == IF n # 0 THEN [S EXCEPT !.tasks[n] = NoTask] ELSE S
    IN  [S1 EXCEPT !.tasks[t] = NoTask]

on_rpc_timeout_sec2(t) ==
    /\ fatal = "none"
    /\ tasks[t].st = "running"
    /\ tasks[t].pc = "sec2"
    /\ LET key == tasks[t].key
       IN  Commit(IF requests[key].resp_task # 0
                  THEN on_rpc_timeout_sec2_found(State, t, key)
                  ELSE on_rpc_timeout_sec2_absent(State, t))
    /\ UNCHANGED <<auto, now, ret, more_vars>>

\* (a resend that goes through the matcher again)
on_rpc_timeout_do_resend_with_call(S, t, accept) ==
    LET c == S.tasks[t].call
        S1 == call_ip(S, S.calls[c].to, c, TRUE, FALSE, accept)
        S2 == arm(S1, S.tasks[t].new_timeout_task,
                  S.tasks[t].timeout_ts_ms - S.tasks[t].now_ts_ms)
    IN  [S2 EXCEPT !.tasks[t] = NoTask]

\* outside the lock: resend with the same request id, arm the new task
on_rpc_timeout_do_resend(S, t, accept) ==
    LET c == S.tasks[t].call
        S1 == call_ip(S, S.calls[c].to, c, FALSE, FALSE, accept)
        S2 == arm(S1, S.tasks[t].new_timeout_task,
                  S.tasks[t].timeout_ts_ms - S.tasks[t].now_ts_ms)
    IN  [S2 EXCEPT !.tasks[t] = NoTask]

on_rpc_timeout_send(t, accept) ==
    /\ fatal = "none"
    /\ tasks[t].st = "running"
    /\ tasks[t].pc = "resend"
    /\ Commit(on_rpc_timeout_do_resend(State, t, accept))
    /\ UNCHANGED <<auto, now, ret, more_vars>>

\* ------------------------------------------------------------ rpc_engine::call
\* The user issues the next call: a request with a new id, a server address,
\* a timeout and the policy of its rpc code.
CallInputs ==
    {[server |-> s, timeout_ms |-> ms, resend_ms |-> r, grpc_mode |-> m] :
        s \in ServerAddrs, ms \in 1..MaxTimeoutMs, r \in {0, ResendMs},
        m \in {GRPC_TO_LEADER, GRPC_TO_ANY, GRPC_TO_ALL}}

\* rpc_engine::call(request, call): the header is stamped with the engine's
\* primary address and with the trace id rand::next_u64 has drawn, then the
\* call is dispatched on the type of the server address.
rpc_engine_call(c, in, member, res, accept, trace_id) ==
    /\ fatal = "none"
    /\ calls[c].st = "none"
    /\ \A d \in Calls : d < c => calls[d].st # "none"
    /\ in.server.type # HOST_TYPE_GROUP => in.grpc_mode = GRPC_TO_LEADER
    /\ next_id <= MaxId
    /\ \E t \in Timers : tasks[t].st = "free"
    /\ now + in.timeout_ms <= MaxTime
    /\ LET S1 == [State EXCEPT
                    !.calls[c] = [NoCall EXCEPT !.st = TASK_STATE_READY,
                                                !.id = next_id,
                                                !.server = in.server,
                                                !.timeout_ms = in.timeout_ms,
                                                !.resend_ms = in.resend_ms,
                                                !.grpc_mode = in.grpc_mode,
                                                !.from_address = primary_address,
                                                !.trace_id = trace_id],
                    !.next_id = @ + 1]
       IN  Commit(call_address(S1, c, member, res, accept))
    /\ UNCHANGED <<auto, now, ret, more_vars>>

\* the call as the matcher and the transports see it: nothing past the
\* stamping reads the trace id but log lines, so one id stands for all
call(c, in, member, res, accept) == rpc_engine_call(c, in, member, res, accept, 1)

\* The user cancels a pending response task.
cancel_call(c) ==
    /\ fatal = "none"
    /\ calls[c].st = TASK_STATE_READY
    /\ calls' = [calls EXCEPT ![c].st = TASK_STATE_CANCELLED]
    /\ UNCHANGED <<requests, tasks, next_id, leader, auto, now, fatal, ret, more_vars>>

\* dsn_now_ms advances
tick ==
    /\ fatal = "none"
    /\ now < MaxTime
    /\ now' = now + 1
    /\ UNCHANGED <<calls, requests, tasks, next_id, leader, auto, fatal, ret, more_vars>>

\* ------------------------------------------- call_ip, statement by statement
\* (a call_ip that hands the request to the transport before it registers it)
call_ip_steps_send_first == <<"send", "on_call">>

\* after the join point: _rpc_matcher.on_call, then net->send_message
call_ip_steps == <<"on_call", "send">>

\* rpc_engine::call to an IPv4 server, up to and with the on_rpc_call join
\* point of call_ip; accept is what the hook returns.
call_ip_enter(c, in, accept) ==
    /\ fatal = "none"
    /\ calls[c].st = "none"
    /\ \A d \in Calls : d < c => calls[d].st # "none"
    /\ in.server.type = HOST_TYPE_IPV4
    /\ next_id <= MaxId
    /\ \E t \in Timers : tasks[t].st = "free"
    /\ now + in.timeout_ms <= MaxTime
    /\ LET S1 == [State EXCEPT
                    !.calls[c] = [NoCall EXCEPT !.st = TASK_STATE_READY,
                                                !.id = next_id,
                                                !.server = in.server,
                                                !.to = in.server.ip,
                                                !.timeout_ms = in.timeout_ms,
                                                !.resend_ms = in.resend_ms,
                                                !.grpc_mode = in.grpc_mode],
                    !.next_id = @ + 1]
       IN  Commit(IF accept
                  THEN [S1 EXCEPT !.calls[c].todo = call_ip_steps]
                  ELSE call_ip(S1, in.server.ip, c, TRUE, FALSE, FALSE))
    /\ UNCHANGED <<auto, now, ret, more_vars>>

\* the next statement of call_ip after the join point
call_ip_step(c) ==
    /\ fatal = "none"
    /\ calls[c].todo # <<>>
    /\ Head(calls[c].todo) = "on_call" => CanRegister(c)
    /\ LET S1 == [State EXCEPT !.calls[c].todo = Tail(@)]
       IN  Commit(IF Head(calls[c].todo) = "on_call"
                  THEN on_call(S1, c)
                  ELSE send_message(S1, c))
    /\ UNCHANGED <<auto, now, ret, more_vars>>

\* ------------------------------------------------- call_uri: the retry shim
Pow2(n) == 2 ^ n

\* 8 << n as the hardware shifts a 32-bit register by a count below the
\* width, widened to uint64_t and capped: up to 8 << 27 the result is exact;
\* 8 << 28 is INT_MIN, whose widening is above the cap; from 8 << 29 on the
\* set bit has left the register.
shl_capped(n) ==
    IF n <= IntBits - 5 THEN Min(GapBaseMs * Pow2(n), GapCapMs)
    ELSE IF n = IntBits - 4 THEN GapCapMs
    ELSE 0

\* uint64_t gap = 8 << send_retry_count; if (gap > 1000) gap = 1000;
\* 8 and send_retry_count are ints, so the shift is an int shift.  From count
\* 29 on its result is not representable, and from count 32 on the count is
\* not below the width: the behaviour is undefined, and a build yields the
\* shift by the count modulo the width (the count is masked), zero (the count
\* is not masked), or the result of a shift done in a wider register, which
\* is above the cap.
gap(req) ==
    IF req.send_retry_count <= IntBits - 4
    THEN {shl_capped(req.send_retry_count)}
    ELSE {shl_capped(req.send_retry_count % IntBits), 0, GapCapMs}

\* (a shim that takes every failure for an access failure)
shim_triggers_on_any_failure(req, err) == req.gpid # 0 /\ err # ERR_OK

\* the errors the shim hands through, and the condition it triggers on
shim_triggers(req, err) ==
    /\ req.gpid # 0
    /\ err \notin {ERR_OK, ERR_HANDLER_NOT_FOUND, ERR_APP_NOT_EXIST, ERR_OPERATION_DISABLED}

\* old_callback(err, req, resp): the user's callback; the task has finished
old_callback(S, c, err, resp) ==
    [S EXCEPT !.calls[c].delivered = Append(@, err),
              !.calls[c].resps = Append(@, resp),
              !.calls[c].st = TASK_STATE_FINISHED]

\* (a backoff that does not count against the deadline)
shim_has_time_ignoring_gap(req, g) == now < req.deadline_ms

\* still got time, retry
shim_has_time(req, g) == now + g < req.deadline_ms

\* the shim's retry: the count goes up, the timeout becomes what is left of
\* the deadline after the backoff, the task gets its callback back and is set
\* to retry, and LPC_RPC_DELAY_CALL is enqueued with delay gap
shim_retry(S, c, g) ==
    LET req == S.calls[c]
    IN  [S EXCEPT !.calls[c].send_retry_count = @ + 1,
                  !.calls[c].timeout_ms = req.deadline_ms - now - g,
                  !.calls[c].shim = @ - 1,
                  !.calls[c].st = TASK_STATE_READY,
                  !.calls[c].retry = TRUE,
                  !.calls[c].retry_due = now + g]

\* new_callback(err, req, resp); resolver is whether the URI still has one,
\* g is the gap the shift produced
new_callback(S, c, err, resp, resolver, g) ==
    IF shim_triggers(S.calls[c], err) /\ resolver
    THEN LET S1 == [S EXCEPT !.calls[c].failures = @ + 1]
         IN  IF shim_has_time(S.calls[c], g)
             THEN shim_retry(S1, c, g)
             ELSE old_callback(S1, c, ERR_TIMEOUT, resp)
    ELSE old_callback(S, c, err, resp)

\* The executor runs the response task on its next completion: the task's
\* current callback is invoked with the completion's error.
exec_response(c, resolver) ==
    /\ fatal = "none"
    /\ calls[c].st = TASK_STATE_READY
    /\ calls[c].execd < Len(calls[c].done)
    /\ now >= calls[c].delay_until
    /\ LET err == calls[c].done[calls[c].execd + 1].err
           resp == calls[c].done[calls[c].execd + 1].reply
           S0 == [State EXCEPT !.calls[c].execd = @ + 1, !.calls[c].delay_until = 0]
       IN  \E g \in gap(calls[c]) :
               Commit(IF calls[c].shim > 0
                      THEN new_callback(S0, c, err, resp, resolver, g)
                      ELSE old_callback(S0, c, err, resp))
    /\ UNCHANGED <<auto, now, ret, more_vars>>

\* The executor runs LPC_RPC_DELAY_CALL once its delay has passed:
\* dsn_rpc_call(server, ctask) issues the call again.
delay_call_fire(c, res, accept) ==
    /\ fatal = "none"
    /\ calls[c].retry
    /\ now >= calls[c].retry_due
    /\ \E t \in Timers : tasks[t].st = "free"
    /\ now + calls[c].timeout_ms <= MaxTime
    /\ Commit(call_address([State EXCEPT !.calls[c].retry = FALSE,
                                         !.calls[c].retry_due = 0],
                           c, AddrA, res, accept))
    /\ UNCHANGED <<auto, now, ret, more_vars>>

\* ------------------------------------------------- rpc_server_dispatcher
\* A handler_entry {code, extra_name, h}; code 0 is "no entry".
Handlers == 1..2
NoHandler == [code |-> 0, extra_name |-> <<"none", 0>>, h |-> 0]

\* A handler_entry* of the name index is good while the code slot that owns
\* the entry still holds it.
ctx_valid(ctx) == ctx.code # 0 /\ vhandlers[ctx.code] = ctx

\* neither name is in the name index
register_free(code, extra_name) ==
    /\ handlers[to_string(code)] = NoHandler
    /\ handlers[extra_name] = NoHandler

register_rpc_handler(code, extra_name, h) ==
    /\ fatal = "none"
    /\ LET ctx == [code |-> code, extra_name |-> extra_name, h |-> h]
       IN  IF register_free(code, extra_name)
           THEN /\ handlers' = [handlers EXCEPT ![to_string(code)] = ctx,
                                                ![extra_name] = ctx]
                /\ vhandlers' = [vhandlers EXCEPT ![code] = ctx]
                /\ ret' = "true"
                /\ fatal' = fatal
           ELSE /\ fatal' = "rpc registration confliction"
                /\ UNCHANGED <<handlers, vhandlers, ret>>
    /\ UNCHANGED <<calls, requests, tasks, next_id, leader, auto, now,
                   horizon, is_serving, out, worker>>

\* wild is what ctx->extra_name reads when the entry behind ctx is gone.
unregister_rpc_handler(rpc_code, wild) ==
    /\ fatal = "none"
    /\ LET ctx == handlers[to_string(rpc_code)]
           extra_name == IF ctx_valid(ctx) THEN ctx.extra_name ELSE wild
       IN  IF ctx = NoHandler
           THEN /\ ret' = "false"
                /\ UNCHANGED <<handlers, vhandlers>>
           ELSE /\ handlers' = [handlers EXCEPT ![to_string(rpc_code)] = NoHandler,
                                                ![extra_name] = NoHandler]
                /\ vhandlers' = [vhandlers EXCEPT ![rpc_code] = NoHandler]
                /\ ret' = "true"
    /\ UNCHANGED <<calls, requests, tasks, next_id, leader, auto, now, fatal,
                   horizon, is_serving, out, worker>>

\* rpc_server_dispatcher::on_request: the handler of the request task, or 0
\* (nullptr).  wild is the handler read through a handler_entry* whose entry
\* is gone.
on_request(msg, wild) ==
    IF msg.local_rpc_code # TASK_CODE_INVALID
    THEN vhandlers[msg.local_rpc_code].h
    ELSE LET ctx == handlers[msg.rpc_name]
         IN  IF ctx = NoHandler THEN 0
             ELSE IF ctx_valid(ctx) THEN ctx.h ELSE wild

\* msg->local_rpc_code after on_request: the name branch writes the entry's
\* code back; wild is the code read through a handler_entry* whose entry is
\* gone.
on_request_local_rpc_code(msg, wild) ==
    IF msg.local_rpc_code # TASK_CODE_INVALID
    THEN msg.local_rpc_code
    ELSE LET ctx == handlers[msg.rpc_name]
         IN  IF ctx = NoHandler THEN msg.local_rpc_code
             ELSE IF ctx_valid(ctx) THEN ctx.code ELSE wild

\* ------------------------------------------------------ rpc_engine: server
\* A request as the transport delivers it: the code the receiver has for it
\* (or TASK_CODE_INVALID), its rpc name, whether it names an app, whether it
\* came over a session, whether its from_address is a valid address, whether
\* its sender is a pure client (from_address port <= MAX_CLIENT_PORT) and
\* whether it was forwarded before.
Requests ==
    [local_rpc_code : {TASK_CODE_INVALID, 1},
     rpc_name : {to_string(1), <<"extra", 1>>},
     app_id : 0..1,
     session : BOOLEAN,
     from_valid : BOOLEAN,
     from_client : BOOLEAN,
     is_forwarded : BOOLEAN,
     id : {1}]

\* message_ex::rpc_code: the code in the message, or the code its name has
rpc_code(msg) ==
    IF msg.local_rpc_code # TASK_CODE_INVALID
    THEN msg.local_rpc_code
    ELSE IF msg.rpc_name = to_string(1) THEN 1 ELSE TASK_CODE_INVALID

\* message_ex::create_response: the response goes back where the request
\* came from, over its session if it has one.
create_response(msg) ==
    [session |-> msg.session,
     to_valid |-> msg.from_valid,
     is_forwarded |-> msg.is_forwarded,
     local_rpc_code |-> rpc_code(msg),
     id |-> msg.id,
     body |-> ""]

Responses ==
    [session : BOOLEAN, to_valid : BOOLEAN, is_forwarded : BOOLEAN,
     local_rpc_code : {TASK_CODE_INVALID, 1}, id : {1}, body : {""}]

\* What an operation of the server side did: the responses handed to reply,
\* the messages handed to a transport (via the session, a client network or
\* a server network), the drops reported to the failure model and the request
\* tasks enqueued.
NoOut ==
    [op |-> "none", replies |-> <<>>, sends |-> <<>>, drops |-> <<>>, enqueued |-> 0,
     task |-> 0, local_rpc_code |-> TASK_CODE_INVALID]

\* the transport rpc_engine::reply picks
reply_net(response) ==
    IF response.session
    THEN IF ~response.is_forwarded THEN "session" ELSE "client"
    ELSE "server"

\* rpc_engine::reply(response, err); cur_task is whether there is a current
\* task, hook what on_rpc_reply returns.
engine_reply(O, response, err, cur_task, hook) ==
    LET O1 == [O EXCEPT !.replies = Append(@, [err |-> err, body |-> response.body])]
        no_fail == IF response.local_rpc_code # TASK_CODE_INVALID /\ cur_task
                   THEN hook ELSE TRUE
        m == [net |-> reply_net(response), kind |-> "response", id |-> response.id,
              to |-> "", is_forwarded |-> response.is_forwarded, err |-> err,
              body |-> response.body]
    IN  IF ~response.session /\ ~response.to_valid
        THEN O1
        ELSE IF no_fail
             THEN [O1 EXCEPT !.sends = Append(@, m)]
             ELSE [O1 EXCEPT !.drops = Append(@, [net |-> m.net, kind |-> "response"])]

rpc_reply(response, err, cur_task, hook) ==
    /\ fatal = "none"
    /\ out' = engine_reply([NoOut EXCEPT !.op = "reply"], response, err, cur_task, hook)
    /\ UNCHANGED <<calls, requests, tasks, next_id, leader, auto, now, fatal, ret,
                   horizon, handlers, vhandlers, is_serving, worker>>

\* rpc_engine::start_serving
start_serving ==
    /\ fatal = "none"
    /\ ~is_serving
    /\ is_serving' = TRUE
    /\ UNCHANGED <<calls, requests, tasks, next_id, leader, auto, now, fatal, ret,
                   horizon, handlers, vhandlers, out, worker>>

\* (an inbound path that enqueues a task for every message with a valid code)
on_recv_request_serving_any_handler(O, msg, intercepted, wild, accept, cur_task, hook) ==
    IF rpc_code(msg) # TASK_CODE_INVALID
    THEN IF accept
         THEN [O EXCEPT !.enqueued = @ + 1]
         ELSE [O EXCEPT !.drops = Append(@, [net |-> "receiving", kind |-> "request"])]
    ELSE engine_reply(O, create_response(msg), ERR_HANDLER_NOT_FOUND, cur_task, hook)

\* rpc_engine::on_recv_request; intercepted is whether the node makes an
\* intercepted request task for the message, accept what
\* on_rpc_request_enqueue returns.
on_recv_request_serving(O, msg, intercepted, wild, accept, cur_task, hook) ==
    LET code == rpc_code(msg)
        msg2 == [msg EXCEPT !.local_rpc_code = code]
        tsk == IF msg.app_id > 0 /\ intercepted THEN TRUE ELSE on_request(msg2, wild) # 0
    IN  IF code # TASK_CODE_INVALID /\ tsk
        THEN IF accept
             THEN [O EXCEPT !.enqueued = @ + 1]
             ELSE [O EXCEPT !.drops = Append(@, [net |-> "receiving", kind |-> "request"])]
        ELSE engine_reply(O, create_response(msg2), ERR_HANDLER_NOT_FOUND, cur_task, hook)

on_recv_request(msg, intercepted, wild, accept, cur_task, hook) ==
    /\ fatal = "none"
    /\ out' = IF ~is_serving
              THEN [NoOut EXCEPT !.op = "on_recv_request"]
              ELSE on_recv_request_serving([NoOut EXCEPT !.op = "on_recv_request"],
                                           msg, intercepted, wild, accept, cur_task, hook)
    /\ UNCHANGED <<calls, requests, tasks, next_id, leader, auto, now, fatal, ret,
                   horizon, handlers, vhandlers, is_serving, worker>>

\* rpc_engine::call_ip on a message that is no call of this client (call ==
\* nullptr), with set_forwarded and without reset_request_id
call_ip_forwarded(O, addr, msg, accept) ==
    LET m == [net |-> "client", kind |-> "request", id |-> msg.id, to |-> addr,
              is_forwarded |-> TRUE, err |-> "", body |-> ""]
    IN  IF accept
        THEN [O EXCEPT !.sends = Append(@, m)]
        ELSE [O EXCEPT !.drops = Append(@, [net |-> "client", kind |-> "request"])]

\* (a forward that always answers FORWARD_TO_OTHERS)
forward_fake_always(msg) == TRUE

\* the sender is a pure client: forwarding is faked by a response
forward_fake(msg) == msg.from_client

\* rpc_engine::forward(request, address); is_request, is_forward_supported
\* and is_local are what the three assertions at its start look at.
forward(msg, address, is_request, is_forward_supported, is_local, accept, cur_task, hook) ==
    /\ fatal = "none"
    /\ LET O == [NoOut EXCEPT !.op = "forward"]
       IN  IF ~is_request
           THEN fatal' = "only rpc request can be forwarded" /\ out' = out
           ELSE IF ~is_forward_supported
           THEN fatal' = "does not support being forwared" /\ out' = out
           ELSE IF is_local
           THEN fatal' = "cannot forward msg to the local node" /\ out' = out
           ELSE /\ fatal' = fatal
                /\ out' = IF forward_fake(msg)
                          THEN engine_reply(O, [create_response(msg) EXCEPT !.body = address],
                                            ERR_FORWARD_TO_OTHERS, cur_task, hook)
                          ELSE call_ip_forwarded(O, address, msg, accept)
    /\ UNCHANGED <<calls, requests, tasks, next_id, leader, auto, now, ret,
                   horizon, handlers, vhandlers, is_serving, worker>>

\* ------------------------------------------------------------- task_worker
\* The tasks that reach the worker's input queue, and the threads a worker
\* creates over its starts.
MaxTasks == 2
MaxStarts == 2
WorkerTasks == 1..MaxTasks
Threads == 1..MaxStarts

\* The worker after its constructor: not running, no thread.  owner is the
\* position of the thread that calls start() and stop() and created the
\* std::thread it has made and not yet assigned; pc and task are the
\* position of each std::thread in run_internal and loop and the task it has
\* dequeued; queue is the input queue, st and execs follow each task.
NoWorker ==
    [is_running |-> FALSE, thread |-> 0, started |-> FALSE, owner |-> "idle",
     created |-> 0,
     pc |-> [t \in Threads |-> "none"], task |-> [t \in Threads |-> 0],
     queue |-> <<>>, st |-> [k \in WorkerTasks |-> "new"],
     execs |-> [k \in WorkerTasks |-> 0]]

\* a producer puts the next task into the worker's queue
enqueue_task(k) ==
    /\ worker.st[k] = "new"
    /\ \A j \in WorkerTasks : j < k => worker.st[j] # "new"
    /\ worker' = [worker EXCEPT !.st[k] = "queued", !.queue = Append(@, k)]
    /\ UNCHANGED <<calls, requests, tasks, next_id, leader, auto, now, fatal, ret,
                   horizon, handlers, vhandlers, is_serving, out>>

\* task_worker::start up to new std::thread: nothing on a running worker
start(W) ==
    IF W.is_running
    THEN W
    ELSE [W EXCEPT !.is_running = TRUE, !.owner = "start_new"]

start_call ==
    /\ worker.owner = "idle"
    /\ ~worker.is_running => \E t \in Threads : worker.pc[t] = "none"
    /\ worker' = start(worker)
    /\ UNCHANGED <<calls, requests, tasks, next_id, leader, auto, now, fatal, ret,
                   horizon, handlers, vhandlers, is_serving, out>>

\* new std::thread(run_internal): the thread exists and may run
start_new_thread ==
    /\ worker.owner = "start_new"
    /\ LET t == CHOOSE u \in Threads :
                    /\ worker.pc[u] = "none"
                    /\ \A v \in Threads : worker.pc[v] = "none" => u <= v
       IN  worker' = [worker EXCEPT !.pc[t] = "run_internal", !.created = t,
                                   !.owner = "start_assign"]
    /\ UNCHANGED <<calls, requests, tasks, next_id, leader, auto, now, fatal, ret,
                   horizon, handlers, vhandlers, is_serving, out>>

\* _thread = the new thread; then _started.wait()
start_assign ==
    /\ worker.owner = "start_assign"
    /\ worker' = [worker EXCEPT !.thread = worker.created, !.created = 0,
                                !.owner = "start_wait"]
    /\ UNCHANGED <<calls, requests, tasks, next_id, leader, auto, now, fatal, ret,
                   horizon, handlers, vhandlers, is_serving, out>>

\* _started.wait() returns once the event has been notified; the event is
\* never reset
start_return ==
    /\ worker.owner = "start_wait"
    /\ worker.started
    /\ worker' = [worker EXCEPT !.owner = "idle"]
    /\ UNCHANGED <<calls, requests, tasks, next_id, leader, auto, now, fatal, ret,
                   horizon, handlers, vhandlers, is_serving, out>>

\* task_worker::stop up to _thread->join(): nothing on a stopped worker
stop(W) ==
    IF ~W.is_running
    THEN W
    ELSE [W EXCEPT !.is_running = FALSE, !.owner = "stop_join"]

stop_call ==
    /\ worker.owner = "idle"
    /\ worker' = stop(worker)
    /\ UNCHANGED <<calls, requests, tasks, next_id, leader, auto, now, fatal, ret,
                   horizon, handlers, vhandlers, is_serving, out>>

\* (a stop that does not wait for the thread)
stop_joined_at_once(W) == TRUE

\* _thread->join() returns when the thread's function has returned
stop_joined(W) == W.pc[W.thread] = "exited"

\* the rest of stop: delete _thread, _thread = nullptr, _is_running = false
stop_join ==
    /\ worker.owner = "stop_join"
    /\ stop_joined(worker)
    /\ worker' = [worker EXCEPT !.pc[worker.thread] =
                                    IF @ = "exited" THEN "joined" ELSE @,
                                !.thread = 0,
                                !.is_running = FALSE,
                                !.owner = "idle"]
    /\ UNCHANGED <<calls, requests, tasks, next_id, leader, auto, now, fatal, ret,
                   horizon, handlers, vhandlers, is_serving, out>>

\* task_worker::run_internal: the thread waits until _thread is set, names
\* and pins itself, notifies _started and enters loop
run_internal(t) ==
    /\ worker.pc[t] = "run_internal"
    /\ worker.thread # 0
    /\ worker' = [worker EXCEPT !.started = TRUE, !.pc[t] = "loop"]
    /\ UNCHANGED <<calls, requests, tasks, next_id, leader, auto, now, fatal, ret,
                   horizon, handlers, vhandlers, is_serving, out>>

\* while (_is_running): _is_running is a plain bool that stop() writes with
\* no synchronisation, so after that write the loop may still read true
loop_reads(W) == IF W.is_running THEN {TRUE} ELSE BOOLEAN

loop(t, seen) ==
    /\ worker.pc[t] = "loop"
    /\ seen \in loop_reads(worker)
    /\ worker' = [worker EXCEPT !.pc[t] = IF seen THEN "dequeue" ELSE "exited"]
    /\ UNCHANGED <<calls, requests, tasks, next_id, leader, auto, now, fatal, ret,
                   horizon, handlers, vhandlers, is_serving, out>>

\* q->dequeue(): the head of the queue, or nullptr when the wait ran out
dequeue(t, got) ==
    /\ worker.pc[t] = "dequeue"
    /\ got => worker.queue # <<>>
    /\ worker' = IF got
                 THEN [worker EXCEPT !.queue = Tail(@),
                                     !.task[t] = Head(worker.queue),
                                     !.st[Head(worker.queue)] = "held",
                                     !.pc[t] = "exec"]
                 ELSE [worker EXCEPT !.pc[t] = "loop"]
    /\ UNCHANGED <<calls, requests, tasks, next_id, leader, auto, now, fatal, ret,
                   horizon, handlers, vhandlers, is_serving, out>>

\* task->exec_internal()
exec_internal(t) ==
    /\ worker.pc[t] = "exec"
    /\ worker' = [worker EXCEPT !.execs[worker.task[t]] = @ + 1,
                                !.st[worker.task[t]] = "done",
                                !.task[t] = 0,
                                !.pc[t] = "loop"]
    /\ UNCHANGED <<calls, requests, tasks, next_id, leader, auto, now, fatal, ret,
                   horizon, handlers, vhandlers, is_serving, out>>

\* ----------------------------------------------------------- specification
InitServer ==
    /\ worker = NoWorker
    /\ handlers = [n \in Names |-> NoHandler]
    /\ vhandlers = [code \in Codes |-> NoHandler]
    /\ is_serving = FALSE
    /\ out = NoOut

Init ==
    /\ calls = [c \in Calls |-> NoCall]
    /\ requests = [k \in Ids |-> NoEntry]
    /\ tasks = [t \in Timers |-> NoTask]
    /\ next_id = 1
    /\ leader = Members[1]
    /\ auto \in BOOLEAN
    /\ now = 0
    /\ fatal = "none"
    /\ ret = "none"
    /\ horizon = MaxTimeoutMs
    /\ InitServer

\* The inputs of a step are drawn only where the step reads them.
Next ==
    \/ \E c \in Calls, in \in CallInputs :
          \E member \in (IF in.grpc_mode = GRPC_TO_ANY THEN Addrs ELSE {AddrA}),
             res \in (IF in.server.type = HOST_TYPE_URI
                      THEN Resolutions
                      ELSE {[resolver |-> FALSE, err |-> "", pid |-> 0, address |-> ""]}),
             accept \in BOOLEAN :
             call(c, in, member, res, accept)
    \/ \E key \in Ids, reply \in Replies :
          \E cur \in {0, requests[key].timeout_task},
             accept \in (IF IsForward(reply) THEN BOOLEAN ELSE {TRUE}) :
             on_recv_reply(key, reply, cur, accept)
    \/ \E t \in Timers : timer_fire(t)
    \/ \E t \in Timers : on_rpc_timeout_sec1(t)
    \/ \E t \in Timers : on_rpc_timeout_check(t)
    \/ \E t \in Timers : on_rpc_timeout_sec2(t)
    \/ \E t \in Timers, accept \in BOOLEAN : on_rpc_timeout_send(t, accept)
    \/ \E c \in Calls : cancel_call(c)
    \/ tick

Spec == Init /\ [][Next]_vars

\* URI calls with their retries: a longer timeout, so that the first backoff
\* of the retry shim fits before the deadline.
UriInputs ==
    {[server |-> [type |-> HOST_TYPE_URI, ip |-> ""], timeout_ms |-> UriTimeoutMs,
      resend_ms |-> r, grpc_mode |-> GRPC_TO_LEADER] : r \in {0, ResendMs}}

UriReplies ==
    {[null |-> FALSE, err |-> e, is_forwarded |-> FALSE, from |-> AddrA, body |-> ""] :
        e \in {ERR_OK, ERR_BUSY, ERR_HANDLER_NOT_FOUND, ERR_APP_NOT_EXIST,
               ERR_OPERATION_DISABLED}}

UriResolutions == {res \in Resolutions : res.address # AddrB}

InitUri ==
    /\ calls = [c \in Calls |-> NoCall]
    /\ requests = [k \in Ids |-> NoEntry]
    /\ tasks = [t \in Timers |-> NoTask]
    /\ next_id = 1
    /\ leader = Members[1]
    /\ auto = TRUE
    /\ now = 0
    /\ fatal = "none"
    /\ ret = "none"
    /\ horizon = MaxUriTime
    /\ InitServer

NextUri ==
    \/ \E c \in Calls, in \in UriInputs, res \in UriResolutions, accept \in BOOLEAN :
          call(c, in, AddrA, res, accept)
    \/ \E key \in Ids, reply \in UriReplies :
          \E cur \in {0, requests[key].timeout_task} :
             on_recv_reply(key, reply, cur, TRUE)
    \/ \E t \in Timers : timer_fire(t)
    \/ \E t \in Timers : on_rpc_timeout_sec1(t)
    \/ \E t \in Timers : on_rpc_timeout_check(t)
    \/ \E t \in Timers : on_rpc_timeout_sec2(t)
    \/ \E t \in Timers, accept \in BOOLEAN : on_rpc_timeout_send(t, accept)
    \/ \E c \in Calls, resolver \in BOOLEAN : exec_response(c, resolver)
    \/ \E c \in Calls, res \in UriResolutions, accept \in BOOLEAN :
          delay_call_fire(c, res, accept)
    \/ tick

SpecUri == InitUri /\ [][NextUri]_vars

\* call_ip followed statement by statement, against the other threads of the
\* matcher.  The transport delivers a reply only for an id it was handed.
SentIds == {k \in Ids : \E c \in Calls : \E i \in 1..Len(calls[c].sends) :
                                    calls[c].sends[i].id = k}

CallIpInputs == {in \in CallInputs : in.server.type = HOST_TYPE_IPV4}

CallIpReplies == {reply \in Replies : ~reply.null /\ ~IsForward(reply) /\ ~reply.is_forwarded}

NextCallIp ==
    \/ \E c \in Calls, in \in CallIpInputs, accept \in BOOLEAN : call_ip_enter(c, in, accept)
    \/ \E c \in Calls : call_ip_step(c)
    \/ \E key \in SentIds, reply \in CallIpReplies :
          \E cur \in {0, requests[key].timeout_task} :
             on_recv_reply(key, reply, cur, TRUE)
    \/ \E t \in Timers : timer_fire(t)
    \/ \E t \in Timers : on_rpc_timeout_sec1(t)
    \/ \E t \in Timers : on_rpc_timeout_check(t)
    \/ \E t \in Timers : on_rpc_timeout_sec2(t)
    \/ \E t \in Timers, accept \in BOOLEAN : on_rpc_timeout_send(t, accept)
    \/ tick

SpecCallIp == Init /\ [][NextCallIp]_vars

\* Every way the engine itself registers a request id: first calls to a URI
\* and to a group, resends, FORWARD_TO_OTHERS redirects and URI retries.
IdsInputs ==
    UriInputs \cup
    {[server |-> [type |-> HOST_TYPE_GROUP, ip |-> ""], timeout_ms |-> UriTimeoutMs,
      resend_ms |-> r, grpc_mode |-> GRPC_TO_LEADER] : r \in {0, ResendMs}}

IdsReplies ==
    {reply \in UriReplies : reply.err \in {ERR_OK, ERR_BUSY}} \cup
    {[null |-> FALSE, err |-> ERR_FORWARD_TO_OTHERS, is_forwarded |-> FALSE,
      from |-> AddrA, body |-> AddrB]}

NextIds ==
    \/ \E c \in Calls, in \in IdsInputs, res \in UriResolutions, accept \in BOOLEAN :
          call(c, in, AddrA, res, accept)
    \/ \E key \in Ids, reply \in IdsReplies :
          \E cur \in {0, requests[key].timeout_task} :
             on_recv_reply(key, reply, cur, TRUE)
    \/ \E t \in Timers : timer_fire(t)
    \/ \E t \in Timers : on_rpc_timeout_sec1(t)
    \/ \E t \in Timers : on_rpc_timeout_check(t)
    \/ \E t \in Timers : on_rpc_timeout_sec2(t)
    \/ \E t \in Timers, accept \in BOOLEAN : on_rpc_timeout_send(t, accept)
    \/ \E c \in Calls, resolver \in BOOLEAN : exec_response(c, resolver)
    \/ \E c \in Calls, res \in UriResolutions, accept \in BOOLEAN :
          delay_call_fire(c, res, accept)
    \/ tick

SpecIds == InitUri /\ [][NextIds]_vars

\* The server side.  A request that carries its code needs no name; what the
\* hooks return is drawn where they are asked.
RecvRequests ==
    {msg \in Requests :
        /\ msg.local_rpc_code # TASK_CODE_INVALID => msg.rpc_name = to_string(1)
        /\ ~msg.is_forwarded
        /\ ~msg.from_client}

ForwardRequests ==
    {msg \in Requests :
        /\ msg.local_rpc_code # TASK_CODE_INVALID
        /\ msg.rpc_name = to_string(1)
        /\ msg.app_id = 0}

ForwardChecks ==
    {<<TRUE, TRUE, FALSE>>, <<FALSE, TRUE, FALSE>>, <<TRUE, FALSE, FALSE>>,
     <<TRUE, TRUE, TRUE>>}

InitServerSide ==
    /\ calls = [c \in Calls |-> NoCall]
    /\ requests = [k \in Ids |-> NoEntry]
    /\ tasks = [t \in Timers |-> NoTask]
    /\ next_id = 1
    /\ leader = Members[1]
    /\ auto = TRUE
    /\ now = 0
    /\ fatal = "none"
    /\ ret = "none"
    /\ horizon = MaxTimeoutMs
    /\ InitServer

NextDispatcher ==
    \/ \E code \in Codes, extra_name \in Names, h \in Handlers :
          register_rpc_handler(code, extra_name, h)
    \/ \E code \in Codes, wild \in Names : unregister_rpc_handler(code, wild)

SpecDispatcher == InitServerSide /\ [][NextDispatcher]_vars

\* One task worker: its owner starts and stops it, producers fill its queue.
NextWorker ==
    \/ \E k \in WorkerTasks : enqueue_task(k)
    \/ start_call
    \/ start_new_thread
    \/ start_assign
    \/ start_return
    \/ stop_call
    \/ stop_join
    \/ \E t \in Threads : run_internal(t)
    \/ \E t \in Threads, seen \in BOOLEAN : loop(t, seen)
    \/ \E t \in Threads, got \in BOOLEAN : dequeue(t, got)
    \/ \E t \in Threads : exec_internal(t)

SpecWorker == InitServerSide /\ [][NextWorker]_vars

\* on_request on a message of the given code and name, seen from its caller:
\* the handler of the request task it returns (0: nullptr) and the message's
\* local_rpc_code afterwards.
DispatchRequests ==
    [local_rpc_code : {TASK_CODE_INVALID} \cup Codes, rpc_name : Names]

\* what a read through a handler_entry* may find when its entry is gone
WildEntries == [h : {0} \cup Handlers, code : Codes]
NoWild == [h |-> 0, code |-> 1]

dangling(msg) ==
    /\ msg.local_rpc_code = TASK_CODE_INVALID
    /\ handlers[msg.rpc_name] # NoHandler
    /\ ~ctx_valid(handlers[msg.rpc_name])

dispatch(msg, wild) ==
    /\ fatal = "none"
    /\ out' = [NoOut EXCEPT !.op = "on_request",
                            !.task = on_request(msg, wild.h),
                            !.local_rpc_code = on_request_local_rpc_code(msg, wild.code)]
    /\ UNCHANGED <<calls, requests, tasks, next_id, leader, auto, now, fatal, ret,
                   horizon, handlers, vhandlers, is_serving, worker>>

NextLookup ==
    \/ \E code \in Codes, extra_name \in Names, h \in Handlers :
          register_rpc_handler(code, extra_name, h)
    \/ \E code \in Codes, wild \in Names : unregister_rpc_handler(code, wild)
    \/ \E msg \in DispatchRequests :
          \E wild \in (IF dangling(msg) THEN WildEntries ELSE {NoWild}) :
             dispatch(msg, wild)

SpecLookup == InitServerSide /\ [][NextLookup]_vars

\* The inbound path: requests arrive while handlers come and go under one
\* extra name and the engine starts to serve.
NextRecv ==
    \/ \E code \in Codes, h \in Handlers :
          register_rpc_handler(code, <<"extra", 1>>, h)
    \/ \E code \in Codes : unregister_rpc_handler(code, <<"extra", 1>>)
    \/ start_serving
    \/ \E msg \in RecvRequests, accept \in BOOLEAN, cur_task \in BOOLEAN :
          \E intercepted \in (IF msg.app_id > 0 THEN BOOLEAN ELSE {FALSE}),
             hook \in (IF cur_task THEN BOOLEAN ELSE {TRUE}) :
             on_recv_request(msg, intercepted, 0, accept, cur_task, hook)

SpecRecv == InitServerSide /\ [][NextRecv]_vars

\* The outbound path of the server side: replies and forwarding.
NextReply ==
    \/ \E response \in Responses, err \in {ERR_OK, ERR_BUSY}, cur_task \in BOOLEAN :
          \E hook \in (IF cur_task THEN BOOLEAN ELSE {TRUE}) :
             rpc_reply(response, err, cur_task, hook)
    \/ \E msg \in ForwardRequests, address \in Addrs, pre \in ForwardChecks,
          cur_task \in BOOLEAN :
          \E accept \in (IF msg.from_client THEN {TRUE} ELSE BOOLEAN),
             hook \in (IF cur_task /\ msg.from_client THEN BOOLEAN ELSE {TRUE}) :
             forward(msg, address, pre[1], pre[2], pre[3], accept, cur_task, hook)

SpecReply == InitServerSide /\ [][NextReply]_vars


\* ------------------------------------------------------------------ claims
\* the registration r of call c is in the matcher
Pending(c, r) == \E k \in Ids : requests[k].resp_task = c /\ requests[k].reg = r

\* how often the matcher completed registration r of call c
Completions(c, r) ==
    Cardinality({i \in DOMAIN calls[c].done : calls[c].done[i].reg = r})

\* how often the transport was handed the request under id k
SendsOf(c, k) == Cardinality({i \in DOMAIN calls[c].sends : calls[c].sends[i].id = k})

\* how often the request was handed to a transport: sent, or dropped by the
\* network failure model
Handed(cs, c) == Len(cs[c].sends) + cs[c].drops

\* C1: whatever the interleaving of on_recv_reply and the steps of
\* on_rpc_timeout, the matcher completes (call->enqueue) every registration
\* made by on_call at most once.
C1_CompletedAtMostOnce ==
    \A c \in Calls : \A r \in 1..calls[c].regs : Completions(c, r) <= 1

\* a reply has completed the call while on_rpc_timeout was between its two
\* critical sections for the same id
C1_Witness ==
    \E c \in Calls, t \in Timers :
        /\ tasks[t].st = "running"
        /\ tasks[t].pc \in {"check", "sec2"}
        /\ tasks[t].call = c
        /\ requests[tasks[t].key].resp_task = 0
        /\ Len(calls[c].done) = 1
        /\ calls[c].done[1].by = "reply"

\* C2 (as the claim states it): once a registration has left the matcher, the
\* call was ended for it exactly once: by a reply delivered, by a timeout
\* delivered or by a forward redirect.
C2_TerminatedExactlyOnce ==
    fatal = "none" =>
        \A c \in Calls : \A r \in 1..calls[c].regs :
            ~Pending(c, r) =>
                Completions(c, r) + (IF r \in calls[c].redirected THEN 1 ELSE 0) = 1

\* C3 (as the claim states it): a registered request is retransmitted at most
\* once, and once it has been retransmitted its entry's deadline is 0.
C3_ResendOnceThenNoDeadline ==
    \A k \in Ids :
        requests[k].resp_task # 0 =>
            /\ SendsOf(requests[k].resp_task, k) <= 2
            /\ SendsOf(requests[k].resp_task, k) = 2 => requests[k].timeout_ts_ms = 0

\* C4 (as the claim states it): when the second critical section of
\* on_rpc_timeout finds the entry and resend was decided against, the entry is
\* removed and the call is completed with ERR_TIMEOUT.
C4_NoResendCompletesWithTimeout ==
    [][\A t \in Timers :
        (/\ on_rpc_timeout_sec2(t)
         /\ ~tasks[t].resend
         /\ requests[tasks[t].key].resp_task # 0)
        => LET key == tasks[t].key
               c == requests[key].resp_task
           IN  /\ requests'[key] = NoEntry
               /\ calls'[c].done =
                    Append(calls[c].done,
                           [err |-> ERR_TIMEOUT, reply |-> FALSE,
                            reg |-> requests[key].reg, by |-> "timeout"])]_vars

\* C5: an on_recv_reply or an on_rpc_timeout that finds no entry for its id
\* changes nothing of the engine (table, calls, transport, timers armed), and
\* on_recv_reply returns false then; it returns true exactly when it found the
\* entry, which it has removed.
C5_NoEntryIsNoOp ==
    [][/\ \A key \in Ids, reply \in Replies, accept \in BOOLEAN :
            \A cur \in {0, requests[key].timeout_task} :
            on_recv_reply(key, reply, cur, accept) =>
                /\ requests[key].resp_task = 0 =>
                    /\ UNCHANGED <<calls, requests, tasks, next_id, leader, fatal>>
                    /\ ret' = "false"
                /\ (requests[key].resp_task # 0 /\ fatal' = "none") =>
                    /\ ret' = "true"
                    /\ requests'[key] = NoEntry
       /\ \A t \in Timers :
            (/\ on_rpc_timeout_sec1(t) \/ on_rpc_timeout_sec2(t)
             /\ requests[tasks[t].key].resp_task = 0)
            => /\ UNCHANGED <<calls, requests, next_id, leader, fatal, ret>>
               /\ \A u \in Timers : tasks'[u].st = "armed" => tasks'[u] = tasks[u]]_vars

\* a reply that came after the timeout was delivered has been discarded
C5_Witness ==
    /\ ret = "false"
    /\ \E c \in Calls : Len(calls[c].done) = 1 /\ calls[c].done[1].by = "timeout"

\* C6 (as the claim states it): a FORWARD_TO_OTHERS reply carrying B for a
\* registered call removes the old entry, is not delivered, and the same call
\* is registered under a new id and sent to B (the on_rpc_call hook letting it
\* pass); a leader group's leader is B afterwards.
C6_ForwardReissues ==
    [][\A key \in Ids, reply \in Replies :
        \A cur \in {0, requests[key].timeout_task} :
        (/\ on_recv_reply(key, reply, cur, TRUE)
         /\ requests[key].resp_task # 0
         /\ IsForward(reply))
        => LET c == requests[key].resp_task
           IN  /\ requests'[key] = NoEntry
               /\ calls'[c].done = calls[c].done
               /\ calls'[c].id # key
               /\ requests'[calls'[c].id].resp_task = c
               /\ calls'[c].sends =
                    Append(calls[c].sends, [id |-> calls'[c].id, to |-> reply.body])
               /\ is_leader_group(State, c) => leader' = reply.body]_vars

\* C7: when on_rpc_timeout has decided to resend (the clock read before the
\* deadline, the call READY) and finds the entry again, the request is handed
\* to the transport once more under the same id (sent, or dropped when the
\* on_rpc_call hook plays a network failure), on_call is not run again, and the
\* new timer is armed for deadline - now; a reply delivered after that
\* completes the call once, with the reply's error, the transport having been
\* handed the request exactly twice and the matcher holding nothing of the call.
C7_ResendThenReply ==
    [][/\ \A t \in Timers :
            on_rpc_timeout_check(t) =>
                tasks'[t].resend =
                    (now < tasks[t].timeout_ts_ms
                        /\ calls[tasks[t].call].st = TASK_STATE_READY)
       /\ \A t \in Timers, accept \in BOOLEAN :
            (/\ on_rpc_timeout_send(t, accept)
             /\ requests[tasks[t].key].resp_task = tasks[t].call)
            => LET c == tasks[t].call
                   n == tasks[t].new_timeout_task
               IN  /\ fatal' = "none"
                   /\ requests' = requests
                   /\ calls'[c].regs = calls[c].regs
                   /\ Handed(calls', c) = Handed(calls, c) + 1
                   /\ accept =>
                        calls'[c].sends =
                            Append(calls[c].sends,
                                   [id |-> tasks[t].key, to |-> calls[c].to])
                   /\ tasks'[n].st = "armed"
                   /\ tasks'[n].delay = tasks[t].timeout_ts_ms - tasks[t].now_ts_ms
       /\ \A key \in Ids, reply \in Replies :
        \A cur \in {0, requests[key].timeout_task} :
            (/\ on_recv_reply(key, reply, cur, TRUE)
             /\ requests[key].resp_task # 0
             /\ ~reply.null /\ ~IsForward(reply)
             /\ fatal' = "none"
             /\ calls[requests[key].resp_task].redirected = {}
             /\ Handed(calls, requests[key].resp_task) >= 2)
            => LET c == requests[key].resp_task
               IN  /\ calls'[c].done =
                        <<[err |-> reply.err, reply |-> TRUE,
                           reg |-> requests[key].reg, by |-> "reply"]>>
                   /\ Handed(calls', c) = 2
                   /\ \A k \in Ids : requests'[k].resp_task # c]_vars

\* the request went out twice under one id and the reply then completed the call
C7_Witness ==
    \E c \in Calls :
        /\ Len(calls[c].sends) = 2
        /\ calls[c].sends[1].id = calls[c].sends[2].id
        /\ calls[c].regs = 1
        /\ Len(calls[c].done) = 1
        /\ calls[c].done[1].err = ERR_OK
        /\ calls[c].done[1].by = "reply"
        /\ \A k \in Ids : requests[k].resp_task # c

\* C8: on_rpc_timeout on an entry with deadline 0 removes the entry in its
\* first critical section and completes the call with ERR_TIMEOUT and no
\* reply; nothing is sent and no timer is armed.
C8_TimeoutWithoutDeadline ==
    [][\A t \in Timers :
        (/\ on_rpc_timeout_sec1(t)
         /\ requests[tasks[t].key].resp_task # 0
         /\ requests[tasks[t].key].timeout_ts_ms = 0)
        => LET key == tasks[t].key
               c == requests[key].resp_task
           IN  /\ requests'[key] = NoEntry
               /\ calls'[c].done =
                    Append(calls[c].done,
                           [err |-> ERR_TIMEOUT, reply |-> FALSE,
                            reg |-> requests[key].reg, by |-> "timeout"])
               /\ Handed(calls', c) = Handed(calls, c)
               /\ \A u \in Timers :
                    tasks'[u].st \in {"armed", "created"} => tasks'[u] = tasks[u]]_vars

\* a call without resend has been completed by its timeout
C8_Witness ==
    \E c \in Calls :
        /\ ~resend_enabled(calls[c])
        /\ Len(calls[c].sends) = 1
        /\ Len(calls[c].done) = 1
        /\ calls[c].done[1].err = ERR_TIMEOUT
        /\ calls[c].done[1].by = "timeout"
        /\ \A k \in Ids : requests[k].resp_task # c

\* C9: on_recv_reply(id, nullptr) on an entry removes it, cancels its timer
\* unless the timer is the current task, and completes the call with
\* ERR_NETWORK_FAILURE and no reply; nothing is issued again.
C9_NullReplyIsNetworkFailure ==
    [][\A key \in Ids, accept \in BOOLEAN :
        \A cur \in {0, requests[key].timeout_task} :
        (/\ on_recv_reply(key, NullReply, cur, accept)
         /\ requests[key].resp_task # 0)
        => LET c == requests[key].resp_task
               tt == requests[key].timeout_task
           IN  /\ requests'[key] = NoEntry
               /\ \A k \in Ids : requests'[k].resp_task # c
               /\ tt # cur => tasks'[tt].st \notin {"armed", "created"}
               /\ tt = cur => tasks' = tasks
               /\ calls'[c].done =
                    Append(calls[c].done,
                           [err |-> ERR_NETWORK_FAILURE, reply |-> FALSE,
                            reg |-> requests[key].reg, by |-> "reply"])
               /\ Handed(calls', c) = Handed(calls, c)
               /\ calls'[c].regs = calls[c].regs
               /\ next_id' = next_id]_vars

\* a null reply has ended a call whose timer was still armed
C9_Witness ==
    \E c \in Calls :
        /\ Len(calls[c].done) = 1
        /\ calls[c].done[1].err = ERR_NETWORK_FAILURE
        /\ \A k \in Ids : requests[k].resp_task # c
        /\ \A t \in Timers : tasks[t].st = "free"

\* C10 (as the claim states it): the only fatal assertions a run reaches are
\* the registration conflict, the insert of an id already in flight and the
\* group mode TO_ALL.
C10_OnlyInternalAsserts ==
    fatal \in {"none", "rpc registration confliction",
               "the message is already on the fly", "to be implemented"}

\* ------------------------------------------------------------------ C11
\* C11: a URI call issued at t0 with timeout T is delivered no later than
\* t0 + T plus one scheduling delay, because the deadline of every retry
\* attempt never exceeds the original deadline t0 + T: each re-issue of the
\* call leaves the captured deadline no later than it was.
C11_RetryKeepsDeadline ==
    [][\A c \in Calls, res \in UriResolutions, accept \in BOOLEAN :
          (delay_call_fire(c, res, accept) /\ res.resolver) =>
              calls'[c].deadline_ms <= calls[c].deadline_ms]_vars

\* ------------------------------------------------------------------ C12
\* C12: when the retry shim of a URI call triggers (partition known, error
\* not one of the four passed through, resolver present): if
\* now + gap < deadline, with gap = min(8 << send_retry_count, 1000), it
\* increments send_retry_count, sets timeout_ms to deadline - now - gap, a
\* positive value, restores the original callback and re-issues the call
\* after gap ms without invoking the original callback; otherwise the
\* original callback is invoked with TIMEOUT and nothing is re-issued.
C12_Triggers(c) ==
    /\ calls[c].shim > 0
    /\ calls[c].gpid # 0
    /\ calls[c].done[calls[c].execd + 1].err \notin
          {ERR_OK, ERR_HANDLER_NOT_FOUND, ERR_APP_NOT_EXIST, ERR_OPERATION_DISABLED}

C12_Gap(c) ==
    IF 8 * (2 ^ calls[c].send_retry_count) > 1000
    THEN 1000
    ELSE 8 * (2 ^ calls[c].send_retry_count)

C12_ShimDecision ==
    [][\A c \in Calls :
          (exec_response(c, TRUE) /\ C12_Triggers(c)) =>
              IF now + C12_Gap(c) < calls[c].deadline_ms
              THEN /\ calls'[c].send_retry_count = calls[c].send_retry_count + 1
                   /\ calls'[c].timeout_ms = calls[c].deadline_ms - now - C12_Gap(c)
                   /\ calls'[c].timeout_ms > 0
                   /\ calls'[c].shim = calls[c].shim - 1
                   /\ calls'[c].delivered = calls[c].delivered
                   /\ calls'[c].retry
                   /\ calls'[c].retry_due = now + C12_Gap(c)
              ELSE /\ calls'[c].delivered = Append(calls[c].delivered, ERR_TIMEOUT)
                   /\ ~calls'[c].retry
                   /\ calls'[c].send_retry_count = calls[c].send_retry_count]_vars

\* a call that was retried once and whose second attempt's failure, with no
\* time left for another backoff, reached the user as TIMEOUT
C12_Witness ==
    \E c \in Calls :
        /\ calls[c].send_retry_count = 1
        /\ calls[c].regs = 2
        /\ calls[c].execd = 2
        /\ calls[c].done[2].err = ERR_BUSY
        /\ calls[c].delivered = <<ERR_TIMEOUT>>

\* ------------------------------------------------------------------ C13
\* C13: a URI call whose URI has no resolver is completed with
\* SERVICE_NOT_FOUND, and one whose resolver reports error E, on the first
\* attempt or on a retry attempt, is completed with E; when the response task
\* runs that completion the user's callback receives exactly that error.
C13_ResolverErrorDelivered ==
    [][\A c \in Calls, resolver \in BOOLEAN :
          (/\ exec_response(c, resolver)
           /\ calls[c].done[calls[c].execd + 1].by = "call_uri") =>
              calls'[c].delivered =
                  Append(calls[c].delivered, calls[c].done[calls[c].execd + 1].err)]_vars

\* ------------------------------------------------------------------ C14
\* C14: unregister(c) of a registered code c returns true and removes both
\* names of its entry from the name index and the entry from the code slot;
\* unregister(c) of a code that is not registered returns false and changes
\* nothing, also when c's name is in the name index only as the extra_name
\* of another code's entry.
C14_Unregister ==
    [][\A c \in Codes, wild \in Names :
          unregister_rpc_handler(c, wild) =>
              IF vhandlers[c] # NoHandler
              THEN /\ ret' = "true"
                   /\ handlers'[to_string(c)] = NoHandler
                   /\ handlers'[vhandlers[c].extra_name] = NoHandler
                   /\ vhandlers'[c] = NoHandler
              ELSE /\ ret' = "false"
                   /\ UNCHANGED <<handlers, vhandlers>>]_vars

\* ------------------------------------------------------------------ C15
\* C15: register(code, extra_name, h) installs the entry, in the name index
\* under both names and in the code slot, only when neither name is in the
\* name index; otherwise it is a fatal registration conflict that leaves both
\* indices unchanged; so a handler that is installed in a code slot is never
\* overwritten by a registration.
C15_RegisterNeverOverwrites ==
    [][\A code \in Codes, extra_name \in Names, h \in Handlers :
          register_rpc_handler(code, extra_name, h) =>
              /\ IF handlers[to_string(code)] = NoHandler /\ handlers[extra_name] = NoHandler
                 THEN LET ctx == [code |-> code, extra_name |-> extra_name, h |-> h]
                      IN  /\ handlers'[to_string(code)] = ctx
                          /\ handlers'[extra_name] = ctx
                          /\ vhandlers'[code] = ctx
                          /\ fatal' = "none"
                 ELSE /\ fatal' = "rpc registration confliction"
                      /\ UNCHANGED <<handlers, vhandlers>>
              /\ vhandlers[code] # NoHandler => vhandlers'[code] = vhandlers[code]]_vars

\* ------------------------------------------------------------------ C16
\* C16: every message passed to on_recv_request has exactly one disposition:
\* not serving, it is dropped (no task, no reply); serving with no handler
\* found (the rpc code is invalid, or there is no intercepted task and no
\* registered handler), exactly one response with HANDLER_NOT_FOUND is
\* replied and no task is enqueued; with a handler found the request task is
\* enqueued once when the hook accepts, and dropped with one drop reported to
\* the transport when it denies.
C16_HandlerFound(msg, intercepted) ==
    LET code == IF msg.local_rpc_code # TASK_CODE_INVALID THEN msg.local_rpc_code
                ELSE IF msg.rpc_name = to_string(1) THEN 1 ELSE TASK_CODE_INVALID
    IN  /\ code # TASK_CODE_INVALID
        /\ \/ msg.app_id > 0 /\ intercepted
           \/ vhandlers[code].h # 0

C16_OneDisposition ==
    [][\A msg \in RecvRequests, accept \in BOOLEAN, cur_task \in BOOLEAN :
       \A intercepted \in (IF msg.app_id > 0 THEN BOOLEAN ELSE {FALSE}),
          hook \in (IF cur_task THEN BOOLEAN ELSE {TRUE}) :
          on_recv_request(msg, intercepted, 0, accept, cur_task, hook) =>
              IF ~is_serving
              THEN /\ out'.replies = <<>> /\ out'.sends = <<>>
                   /\ out'.drops = <<>> /\ out'.enqueued = 0
              ELSE IF ~C16_HandlerFound(msg, intercepted)
              THEN /\ Len(out'.replies) = 1
                   /\ out'.replies[1].err = ERR_HANDLER_NOT_FOUND
                   /\ out'.enqueued = 0
                   /\ \A i \in 1..Len(out'.drops) : out'.drops[i].kind = "response"
              ELSE IF accept
              THEN /\ out'.enqueued = 1
                   /\ out'.replies = <<>> /\ out'.sends = <<>> /\ out'.drops = <<>>
              ELSE /\ out'.drops = <<[net |-> "receiving", kind |-> "request"]>>
                   /\ out'.enqueued = 0
                   /\ out'.replies = <<>> /\ out'.sends = <<>>]_vars

\* a serving engine with a handler registered for code 1 has enqueued the
\* request task of a message
C16_Witness ==
    /\ is_serving
    /\ vhandlers[1] # NoHandler
    /\ out.op = "on_recv_request"
    /\ out.enqueued = 1

\* ------------------------------------------------------------------ C17
\* C17: forward(request, address), its preconditions met: for a request from
\* a pure client (from_address port <= MAX_CLIENT_PORT) exactly one response
\* is produced, with address as body and error FORWARD_TO_OTHERS, and no
\* outbound call is made (no request goes out, the matcher is untouched); for
\* any other request a copy goes to address over a client transport with
\* is_forwarded set and the same request id (handed to the transport, or
\* reported to it as dropped when the on_rpc_call hook denies), nothing is
\* registered in the matcher and no response is produced.
C17_Forward ==
    [][\A msg \in ForwardRequests, address \in Addrs, accept \in BOOLEAN,
          cur_task \in BOOLEAN, hook \in BOOLEAN :
          forward(msg, address, TRUE, TRUE, FALSE, accept, cur_task, hook) =>
              /\ UNCHANGED <<calls, requests, tasks, next_id>>
              /\ IF msg.from_client
                 THEN /\ out'.replies = <<[err |-> ERR_FORWARD_TO_OTHERS, body |-> address]>>
                      /\ \A i \in 1..Len(out'.sends) :
                            /\ out'.sends[i].kind = "response"
                            /\ out'.sends[i].body = address
                            /\ out'.sends[i].err = ERR_FORWARD_TO_OTHERS
                      /\ \A i \in 1..Len(out'.drops) : out'.drops[i].kind = "response"
                      /\ Len(out'.sends) + Len(out'.drops) <= 1
                 ELSE /\ out'.replies = <<>>
                      /\ IF accept
                         THEN /\ out'.sends = <<[net |-> "client", kind |-> "request",
                                                  id |-> msg.id, to |-> address,
                                                  is_forwarded |-> TRUE, err |-> "",
                                                  body |-> ""]>>
                              /\ out'.drops = <<>>
                         ELSE /\ out'.sends = <<>>
                              /\ out'.drops = <<[net |-> "client", kind |-> "request"]>>]_vars

\* a request that did not come from a pure client has been forwarded to B
C17_Witness ==
    /\ out.op = "forward"
    /\ out.replies = <<>>
    /\ Len(out.sends) = 1
    /\ out.sends[1].kind = "request"
    /\ out.sends[1].to = AddrB
    /\ out.sends[1].is_forwarded

\* ------------------------------------------------------------------ C18
\* C18: reply(response, err) routes every response with a valid target on
\* exactly one transport: the owning session iff the response has a session
\* and is not forwarded, a client transport whenever it is forwarded (with or
\* without a session), the server transport only when it has no session and
\* is not forwarded; a response with no session and an invalid to_address is
\* dropped without being sent.
C18_Transport(response) ==
    IF response.is_forwarded THEN "client"
    ELSE IF response.session THEN "session" ELSE "server"

C18_ReplyRouting ==
    [][\A response \in Responses, err \in {ERR_OK, ERR_BUSY}, cur_task \in BOOLEAN,
          hook \in BOOLEAN :
          rpc_reply(response, err, cur_task, hook) =>
              IF ~response.session /\ ~response.to_valid
              THEN out'.sends = <<>> /\ out'.drops = <<>>
              ELSE /\ Len(out'.sends) + Len(out'.drops) = 1
                   /\ \A i \in 1..Len(out'.sends) :
                         out'.sends[i].net = C18_Transport(response)
                   /\ \A i \in 1..Len(out'.drops) :
                         out'.drops[i].net = C18_Transport(response)]_vars

\* ------------------------------------------------------------------ C19
\* C19: the matcher holds at most one entry per request id, and the
\* duplicate-id assertion of on_call is never reached by what the engine
\* itself does: a first call, a resend with the same id, a FORWARD_TO_OTHERS
\* redirect with a fresh id, a URI retry that re-issues with the same id.
C19_EntriesOf(k) == {c \in Calls : requests[k].resp_task = c}

C19_NoDuplicateId ==
    /\ fatal # "the message is already on the fly"
    /\ \A k \in Ids : Cardinality(C19_EntriesOf(k)) <= 1
    /\ \A k \in Ids : requests[k].resp_task # 0 => calls[requests[k].resp_task].id = k

\* a URI retry has registered the call again under the id of its first attempt
C19_Witness ==
    \E c \in Calls :
        /\ calls[c].send_retry_count = 1
        /\ calls[c].regs = 2
        /\ calls[c].id = 1
        /\ requests[1].resp_task = c

\* ------------------------------------------------------------------ C20
\* C20: a timeout handler started for one attempt of a call never acts on a
\* later attempt: when a URI retry has registered the same request id again
\* while on_rpc_timeout(id) of the previous attempt is still running, so that
\* the entry under the id names another timeout task than the running one,
\* no step of that handler removes the entry, completes the call, replaces
\* the entry's timer or resends the request.
C20_Stale(t) ==
    /\ tasks[t].st = "running"
    /\ requests[tasks[t].key].resp_task # 0
    /\ requests[tasks[t].key].timeout_task # t

C20_StaleTimeoutKeepsOff ==
    [][\A t \in Timers :
          (/\ C20_Stale(t)
           /\ \/ on_rpc_timeout_sec1(t)
              \/ on_rpc_timeout_check(t)
              \/ on_rpc_timeout_sec2(t)) =>
              LET key == tasks[t].key
                  c == requests[key].resp_task
              IN  /\ requests'[key] = requests[key]
                  /\ calls'[c].done = calls[c].done
                  /\ calls'[c].sends = calls[c].sends]_vars

\* ------------------------------------------------------------------ C21
\* C21: on_call computes the entry's deadline and the first timer's delay:
\* with a resend threshold R > 0 and timeout_ms > R the deadline is
\* now + timeout_ms, not zero, and the timer is armed for R; otherwise the
\* deadline is 0 and the timer is armed for timeout_ms.
C21_OnCallDeadline ==
    [][\A c \in Calls :
          calls'[c].regs = calls[c].regs + 1 =>
              LET req == calls'[c]
                  e == requests'[req.id]
                  R == req.resend_ms
              IN  /\ e.resp_task = c
                  /\ e.reg = req.regs
                  /\ tasks'[e.timeout_task].st = "armed"
                  /\ IF R > 0 /\ req.timeout_ms > R
                     THEN /\ e.timeout_ts_ms = now + req.timeout_ms
                          /\ e.timeout_ts_ms # 0
                          /\ tasks'[e.timeout_task].delay = R
                     ELSE /\ e.timeout_ts_ms = 0
                          /\ tasks'[e.timeout_task].delay = req.timeout_ms]_vars

\* a call registered at time 1 with resend enabled: the deadline is
\* 1 + timeout_ms and the timer is armed for the threshold
C21_Witness ==
    \E k \in Ids :
        /\ requests[k].resp_task # 0
        /\ calls[requests[k].resp_task].resend_ms = ResendMs
        /\ calls[requests[k].resp_task].timeout_ms = UriTimeoutMs
        /\ requests[k].timeout_ts_ms = 1 + UriTimeoutMs
        /\ tasks[requests[k].timeout_task].st = "armed"
        /\ tasks[requests[k].timeout_task].delay = ResendMs
        /\ tasks[requests[k].timeout_task].due = 1 + ResendMs

\* ------------------------------------------------------------------ C22
\* C22: in call_ip with a call, the matcher entry of the request id is made
\* before the request is handed to the transport, so no reply arrives for an
\* id that was sent but is not yet registered; when the on_rpc_call hook
\* denies, nothing is registered and nothing is sent, one drop is reported to
\* the transport and the call is completed with TIMEOUT.
C22_RegisteredBeforeSent ==
    [][/\ \A c \in Calls :
             (call_ip_step(c) /\ Head(calls[c].todo) = "send") =>
                 /\ calls[c].regs = 1
                 /\ calls'[c].sends =
                        Append(calls[c].sends, [id |-> calls[c].id, to |-> calls[c].to])
       /\ \A key \in SentIds, reply \in CallIpReplies :
          \A cur \in {0, requests[key].timeout_task} :
             on_recv_reply(key, reply, cur, TRUE) =>
                 \A c \in Calls : calls[c].id = key => calls[c].regs >= 1
       /\ \A c \in Calls, in \in CallIpInputs :
             call_ip_enter(c, in, FALSE) =>
                 /\ calls'[c].regs = 0
                 /\ calls'[c].todo = <<>>
                 /\ requests' = requests
                 /\ tasks' = tasks
                 /\ calls'[c].sends = <<>>
                 /\ calls'[c].drops = 1
                 /\ Len(calls'[c].done) = 1
                 /\ calls'[c].done[1].err = ERR_TIMEOUT]_vars

\* a reply has completed a call whose call_ip registered it and then sent it
C22_Witness ==
    \E c \in Calls :
        /\ calls[c].todo = <<>>
        /\ calls[c].regs = 1
        /\ Len(calls[c].sends) = 1
        /\ Len(calls[c].done) = 1
        /\ calls[c].done[1].by = "reply"
        /\ calls[c].done[1].err = ERR_OK

\* ------------------------------------------------------------------ C23
\* C23: the retry shim retries only when the completion's error is none of
\* OK, HANDLER_NOT_FOUND, APP_NOT_EXIST, OPERATION_DISABLED and the request's
\* gpid is not zero; in every other case it invokes the original callback
\* once, with the error and the response of the completion unchanged, and
\* reports no access failure to the resolver.
C23_MayRetry(c) ==
    /\ calls[c].done[calls[c].execd + 1].err \notin
          {ERR_OK, ERR_HANDLER_NOT_FOUND, ERR_APP_NOT_EXIST, ERR_OPERATION_DISABLED}
    /\ calls[c].gpid # 0

C23_ShimPassesThrough ==
    [][\A c \in Calls, resolver \in BOOLEAN :
          (exec_response(c, resolver) /\ calls[c].shim > 0) =>
              /\ calls'[c].send_retry_count # calls[c].send_retry_count => C23_MayRetry(c)
              /\ calls'[c].retry => C23_MayRetry(c)
              /\ ~C23_MayRetry(c) =>
                    /\ calls'[c].delivered =
                          Append(calls[c].delivered, calls[c].done[calls[c].execd + 1].err)
                    /\ calls'[c].resps =
                          Append(calls[c].resps, calls[c].done[calls[c].execd + 1].reply)
                    /\ calls'[c].failures = calls[c].failures
                    /\ ~calls'[c].retry]_vars

\* on a retry attempt, with the partition known, HANDLER_NOT_FOUND went
\* through the shim to the user unchanged
C23_Witness ==
    \E c \in Calls :
        /\ calls[c].gpid # 0
        /\ calls[c].send_retry_count = 1
        /\ calls[c].failures = 1
        /\ calls[c].delivered = <<ERR_HANDLER_NOT_FOUND>>
        /\ calls[c].resps = <<TRUE>>

\* ------------------------------------------------------------------ C24
\* The shim at the failure of attempt number send_retry_count + 1 of a URI
\* call: the partition is known, the failed completion waits for the
\* executor, and the deadline leaves room for any backoff.  The clock is read
\* from the instant of that completion; of the call's history the state
\* keeps the last attempt.
MaxRetryCount == 63
RetryCounts == 0..MaxRetryCount

InitGap ==
    /\ \E n \in RetryCounts :
          calls = [c \in Calls |->
                     [NoCall EXCEPT !.st = TASK_STATE_READY,
                                    !.server = [type |-> HOST_TYPE_URI, ip |-> ""],
                                    !.to = AddrA,
                                    !.timeout_ms = 1,
                                    !.gpid = 1,
                                    !.shim = 1,
                                    !.regs = 1,
                                    !.done = <<[err |-> ERR_BUSY, reply |-> TRUE,
                                                reg |-> 1, by |-> "on_recv_reply"]>>,
                                    !.send_retry_count = n,
                                    !.failures = n,
                                    !.deadline_ms = GapCapMs + 1]]
    /\ requests = [k \in Ids |-> NoEntry]
    /\ tasks = [t \in Timers |-> NoTask]
    /\ next_id = 2
    /\ leader = Members[1]
    /\ auto = TRUE
    /\ now = 0
    /\ fatal = "none"
    /\ ret = "none"
    /\ horizon = GapCapMs + 1
    /\ InitServer

NextGap == \E c \in Calls, resolver \in BOOLEAN : exec_response(c, resolver)

SpecGap == InitGap /\ [][NextGap]_vars

\* C24: for every value of send_retry_count the backoff of the retry shim is
\* min(8 * 2^send_retry_count, 1000) ms, hence within [8, 1000] and
\* non-decreasing in the count, also where 8 << send_retry_count overflows.
\* (8 * 2^n exceeds 1000 from n = 7 on.)
C24_Backoff(n) == IF n >= 7 THEN 1000 ELSE 8 * (2 ^ n)

C24_BackoffIsCappedPower ==
    [][\A c \in Calls :
          (exec_response(c, TRUE) /\ calls'[c].retry) =>
              /\ calls'[c].retry_due - now = C24_Backoff(calls[c].send_retry_count)
              /\ calls'[c].retry_due - now >= 8
              /\ calls'[c].retry_due - now <= 1000]_vars

\* ------------------------------------------------------------------ C25
\* C25: for one URI call, over all its retries, at most one attempt is
\* outstanding at a time (an entry in the matcher or a re-issue waiting for
\* its backoff), the response task carries at most one shim over the user's
\* callback, and the user's callback is invoked exactly once: never twice,
\* and once when nothing of the call is outstanding any more.
C25_Entries(c) == {k \in Ids : requests[k].resp_task = c}

C25_Outstanding(c) ==
    Cardinality(C25_Entries(c)) + (IF calls[c].retry THEN 1 ELSE 0)

C25_Settled(c) ==
    /\ calls[c].regs > 0
    /\ C25_Outstanding(c) = 0
    /\ calls[c].execd = Len(calls[c].done)

C25_OneAttemptOneShimOneInvocation ==
    fatal = "none" =>
        \A c \in Calls :
            /\ C25_Outstanding(c) <= 1
            /\ calls[c].shim <= 1
            /\ Len(calls[c].delivered) <= 1
            /\ C25_Settled(c) => Len(calls[c].delivered) = 1

\* ------------------------------------------------------------------ C26
\* C26: on_request returns a request task iff a handler is registered for
\* the message.  With a valid msg.local_rpc_code the handler is the one in
\* that code's slot and the code stays; otherwise the handler is that of the
\* registered code of which msg.rpc_name is the name or the extra_name, and
\* msg.local_rpc_code becomes that code, so that a registered code is found
\* alike by code and by either of its names; when there is no such handler,
\* nullptr is returned and msg.local_rpc_code is unchanged.
C26_Registered(k) == vhandlers[k] # NoHandler

C26_NamedBy(msg) ==
    {k \in Codes : /\ C26_Registered(k)
                   /\ msg.rpc_name \in {to_string(k), vhandlers[k].extra_name}}

C26_Lookup ==
    [][\A msg \in DispatchRequests :
          \A wild \in (IF dangling(msg) THEN WildEntries ELSE {NoWild}) :
             dispatch(msg, wild) =>
                IF msg.local_rpc_code # TASK_CODE_INVALID
                THEN /\ out'.task = vhandlers[msg.local_rpc_code].h
                     /\ out'.local_rpc_code = msg.local_rpc_code
                ELSE /\ \A k \in C26_NamedBy(msg) :
                           /\ out'.task = vhandlers[k].h
                           /\ out'.local_rpc_code = k
                     /\ C26_NamedBy(msg) = {} =>
                           /\ out'.task = 0
                           /\ out'.local_rpc_code = msg.local_rpc_code]_vars

\* ------------------------------------------------------------------ C27
\* C27: on_recv_reply changes the group's leader hint only for a request
\* that targets a group in TO_LEADER mode with auto-update on, and then only
\* so: leader_forward() on a null reply, set_leader(the address in the body)
\* on FORWARD_TO_OTHERS, set_leader(reply.from_address) on a forwarded reply
\* with error OK.  In every other case the hint is what it was.
C27_LeaderGroup(key) ==
    /\ requests[key].resp_task # 0
    /\ calls[requests[key].resp_task].server.type = HOST_TYPE_GROUP
    /\ calls[requests[key].resp_task].grpc_mode = GRPC_TO_LEADER
    /\ auto

C27_LeaderHint ==
    [][\A key \in Ids, reply \in Replies :
          \A cur \in {0, requests[key].timeout_task},
             accept \in (IF IsForward(reply) THEN BOOLEAN ELSE {TRUE}) :
             on_recv_reply(key, reply, cur, accept) =>
                leader' =
                    CASE C27_LeaderGroup(key) /\ reply.null ->
                            CHOOSE m \in {Members[1], Members[2]} : m # leader
                      [] C27_LeaderGroup(key) /\ ~reply.null
                            /\ reply.err = ERR_FORWARD_TO_OTHERS -> reply.body
                      [] C27_LeaderGroup(key) /\ ~reply.null
                            /\ reply.err = ERR_OK /\ reply.is_forwarded -> reply.from
                      [] OTHER -> leader]_vars

\* the only reply of a TO_LEADER call, forwarded and OK, has moved the hint
\* of an auto-updating group to its sender
C27_Witness ==
    \E c \in Calls :
        /\ calls[c].server.type = HOST_TYPE_GROUP
        /\ calls[c].grpc_mode = GRPC_TO_LEADER
        /\ auto
        /\ calls[c].regs = 1
        /\ calls[c].redirected = {}
        /\ Len(calls[c].done) = 1
        /\ calls[c].done[1].err = ERR_OK
        /\ calls[c].done[1].by = "reply"
        /\ leader # Members[1]

\* ------------------------------------------------------------------ C28
\* rpc_engine::call with the header it stamps
NextCall ==
    \E c \in Calls, in \in CallInputs :
       \E member \in (IF in.grpc_mode = GRPC_TO_ANY THEN Addrs ELSE {AddrA}),
          res \in (IF in.server.type = HOST_TYPE_URI
                   THEN Resolutions
                   ELSE {[resolver |-> FALSE, err |-> "", pid |-> 0, address |-> ""]}),
          accept \in BOOLEAN,
          trace_id \in next_u64 :
          rpc_engine_call(c, in, member, res, accept, trace_id)

SpecCall == Init /\ [][NextCall]_vars

\* C28: every call(request, call) leaves the request with from_address = the
\* engine's primary address and with a trace_id that is not zero.
C28_Stamped ==
    \A c \in Calls :
        calls[c].st # "none" =>
            /\ calls[c].from_address = primary_address
            /\ calls[c].trace_id # 0

\* ------------------------------------------------------------------ C29
\* URI calls against a resolver that may answer another partition id for the
\* same partition hash from one attempt to the next (the partition count or
\* the app behind the URI has changed).
GpidResolutions ==
    UriResolutions \cup {[resolver |-> TRUE, err |-> ERR_OK, pid |-> 2, address |-> AddrA]}

NextGpid ==
    \/ \E c \in Calls, in \in UriInputs, res \in GpidResolutions, accept \in BOOLEAN :
          call(c, in, AddrA, res, accept)
    \/ \E key \in Ids, reply \in UriReplies :
          \E cur \in {0, requests[key].timeout_task} :
             on_recv_reply(key, reply, cur, TRUE)
    \/ \E t \in Timers : timer_fire(t)
    \/ \E t \in Timers : on_rpc_timeout_sec1(t)
    \/ \E t \in Timers : on_rpc_timeout_check(t)
    \/ \E t \in Timers : on_rpc_timeout_sec2(t)
    \/ \E t \in Timers, accept \in BOOLEAN : on_rpc_timeout_send(t, accept)
    \/ \E c \in Calls, resolver \in BOOLEAN : exec_response(c, resolver)
    \/ \E c \in Calls, res \in GpidResolutions, accept \in BOOLEAN :
          delay_call_fire(c, res, accept)
    \/ tick

SpecGpid == InitUri /\ [][NextGpid]_vars

\* C29: whenever a resolution succeeds, on the first attempt or on a retry,
\* the request's gpid is zero or the resolved partition id, so that the
\* "inconsistent gpid" assertion is never reached, whatever partition id the
\* resolver answers on a later attempt; and a gpid that is not zero never
\* changes.
C29_GpidConsistent ==
    [][/\ fatal' # "inconsistent gpid"
       /\ \A c \in Calls : calls[c].gpid # 0 => calls'[c].gpid = calls[c].gpid]_vars

\* ------------------------------------------------------------------ C30
\* C30: a resend is transmitted only for a call that is still pending: when
\* on_rpc_timeout hands the request to call_ip and arms the new timer, the
\* entry of that id is in the matcher and belongs to the call, and the call
\* has no completion, whatever on_recv_reply did for the same id meanwhile.
C30_ResendOnlyWhilePending ==
    [][\A t \in Timers, accept \in BOOLEAN :
          on_rpc_timeout_send(t, accept) =>
              /\ requests[tasks[t].key].resp_task = tasks[t].call
              /\ calls[tasks[t].call].done = <<>>]_vars

\* ------------------------------------------------------------------ C31
\* C31: after any sequence of successful registrations and unregistrations
\* the two indices of the dispatcher agree: the slot of a code is occupied
\* iff the name index maps the code's name to the entry in the slot, every
\* entry in a slot is found under both of its names, and every entry of the
\* name index is the entry its code's slot holds.
C31_IndicesAgree ==
    fatal = "none" =>
        /\ \A code \in Codes :
              /\ vhandlers[code] # NoHandler <=>
                    (/\ handlers[to_string(code)] # NoHandler
                     /\ handlers[to_string(code)] = vhandlers[code])
              /\ vhandlers[code] # NoHandler =>
                    handlers[vhandlers[code].extra_name] = vhandlers[code]
        /\ \A name \in Names :
              handlers[name] # NoHandler =>
                    vhandlers[handlers[name].code] = handlers[name]

\* ------------------------------------------------------------------ C32
\* C32: a task worker executes each task it dequeues exactly once, and only
\* between start() and stop(): start() on a running worker and stop() on a
\* stopped worker change nothing, there is never a second thread, and once
\* stop() has returned the thread has exited and executes no further task.
C32_Live == {t \in Threads : worker.pc[t] \notin {"none", "joined"}}

\* the worker was never started, or its last stop() has returned
C32_Stopped == worker.owner = "idle" /\ ~worker.is_running

C32_Safe ==
    /\ \A k \in WorkerTasks :
          /\ worker.st[k] = "done" => worker.execs[k] = 1
          /\ worker.st[k] # "done" => worker.execs[k] = 0
    /\ Cardinality(C32_Live) <= 1
    /\ C32_Stopped => C32_Live = {}

C32_ExecutesOnceWhileStarted ==
    [][/\ C32_Safe'
       /\ (start_call /\ worker.is_running) => worker' = worker
       /\ (stop_call /\ ~worker.is_running) => worker' = worker
       /\ \A t \in Threads : exec_internal(t) => ~C32_Stopped /\ ~C32_Stopped']_vars

\* a worker that was started, ran a task, was stopped, and was started again
\* with its second thread, the first one joined
C32_Witness ==
    /\ worker.pc[1] = "joined"
    /\ worker.pc[2] = "dequeue"
    /\ worker.is_running
    /\ worker.owner = "idle"
    /\ worker.st[1] = "done"
    /\ worker.execs[1] = 1

=============================================================================
